---- MODULE Spec2Model ----
(***************************************************************************)
(* Coordinator meta-catalog of dingo-store: the schema / table / index     *)
(* control path of CoordinatorControl (coordinator_control_meta.cc).       *)
(*                                                                         *)
(* A call (CreateSchema, DropSchema, CreateTable, DropTable, CreateIndex,  *)
(* DropIndex) runs on a worker thread of the leader and builds a           *)
(* meta-increment; a call that returns OK submits it to the replicated     *)
(* log, and the log applies the submitted meta-increments in order.        *)
(* Calls of different threads interleave at their accesses to the shared   *)
(* maps.                                                                   *)
(***************************************************************************)
EXTENDS Integers, Sequences, FiniteSets

-----------------------------------------------------------------------------
(* Bounds of the model *)

\* worker threads that run calls concurrently
NumProcs == 2
\* calls that get past their parameter checks in one behaviour
MaxCalls == 3
\* the same, when one thread runs the calls one after the other
MaxSeqCalls == 4
\* ranges a definition declares
MaxRanges == 2
\* meta-increments submitted and not yet applied
MaxPending == 2
\* the metrics: the client makes at most this many calls
MaxMetaCalls == 2
\* at most this many reads of metrics and ranges
MaxReads == 3
\* the regions change at most this often
MaxRegionUpdates == 2
\* the sweep starts at most this often
MaxSweeps == 1

-----------------------------------------------------------------------------
(* Program constants *)

ROOT_SCHEMA == 0
META_SCHEMA == 1
DINGO_SCHEMA == 2
MYSQL_SCHEMA == 3
INFORMATION_SCHEMA == 4
COORDINATOR_ID_OF_MAP_MIN == 1000
DEFAULT_REPLICA == 3

Procs == 1..NumProcs

\* Errno values the calls return
OK == "OK"
EILLEGAL_PARAMTETERS == "EILLEGAL_PARAMTETERS"
ESCHEMA_EXISTS == "ESCHEMA_EXISTS"
ESCHEMA_NOT_FOUND == "ESCHEMA_NOT_FOUND"
ESCHEMA_NOT_EMPTY == "ESCHEMA_NOT_EMPTY"
ETABLE_EXISTS == "ETABLE_EXISTS"
ETABLE_NOT_FOUND == "ETABLE_NOT_FOUND"
ETABLE_DEFINITION_ILLEGAL == "ETABLE_DEFINITION_ILLEGAL"
ETABLE_REGION_CREATE_FAILED == "ETABLE_REGION_CREATE_FAILED"
EINDEX_EXISTS == "EINDEX_EXISTS"
EINDEX_NOT_FOUND == "EINDEX_NOT_FOUND"
EINDEX_DEFINITION_ILLEGAL == "EINDEX_DEFINITION_ILLEGAL"
EINDEX_REGION_CREATE_FAILED == "EINDEX_REGION_CREATE_FAILED"
EAUTO_INCREMENT_WHILE_CREATING_TABLE == "EAUTO_INCREMENT_WHILE_CREATING_TABLE"
EINTERNAL == "EINTERNAL"

\* IdEpochType
ID_NEXT_SCHEMA == "ID_NEXT_SCHEMA"
ID_NEXT_TABLE == "ID_NEXT_TABLE"
ID_NEXT_REGION == "ID_NEXT_REGION"
EPOCH_SCHEMA == "EPOCH_SCHEMA"
EPOCH_TABLE == "EPOCH_TABLE"
EPOCH_INDEX == "EPOCH_INDEX"
EPOCH_REGION == "EPOCH_REGION"
EPOCH_STORE == "EPOCH_STORE"
IdEpochType ==
  {ID_NEXT_SCHEMA, ID_NEXT_TABLE, ID_NEXT_REGION,
   EPOCH_SCHEMA, EPOCH_TABLE, EPOCH_INDEX, EPOCH_REGION, EPOCH_STORE}

\* MetaIncrementOpType
CREATE == "CREATE"
DELETE == "DELETE"

-----------------------------------------------------------------------------
(* Strings are sequences of characters, so that keys can be concatenated *)

Digits == <<"0", "1", "2", "3", "4", "5", "6", "7", "8", "9">>

RECURSIVE to_string(_)
\* std::to_string of an unsigned integer: its decimal text
to_string(n) ==
  IF n < 10 THEN <<Digits[n + 1]>>
  ELSE to_string(n \div 10) \o <<Digits[(n % 10) + 1]>>

\* the key of the table and index name maps
NameKey(schema_id, name) == to_string(schema_id) \o name

-----------------------------------------------------------------------------
(* DingoSafeMap: a concurrency-safe map; every operation is atomic *)

EmptyMap == [k \in {} |-> 0]

Exists(m, k) == k \in DOMAIN m

\* Get(key, value): value is left as it was (0) when the key is absent
GetValue(m, k) == IF k \in DOMAIN m THEN m[k].id ELSE 0

Put(m, k, v) == [x \in (DOMAIN m) \cup {k} |-> IF x = k THEN v ELSE m[x]]

\* PutIfAbsent returns < 0 and leaves the map alone when the key is present
PutIfAbsentOk(m, k) == k \notin DOMAIN m

PutIfAbsent(m, k, v) == IF k \in DOMAIN m THEN m ELSE Put(m, k, v)

Erase(m, k) == [x \in (DOMAIN m) \ {k} |-> m[x]]

-----------------------------------------------------------------------------
(* Inputs of the calls *)

\* names of schemas, tables and indexes; the empty name is illegal
Names == {<<"t">>}
EmptyName == <<>>

\* IndexParameter of an index definition.  A message field that is not set
\* reads as its default (0 / NONE), as protobuf getters do.
HnswParameter(dimension, metric_type, efconstruction, max_elements, nlinks) ==
  [dimension |-> dimension, metric_type |-> metric_type,
   efconstruction |-> efconstruction, max_elements |-> max_elements,
   nlinks |-> nlinks]

FlatParameter(dimension, metric_type) ==
  [dimension |-> dimension, metric_type |-> metric_type]

IvfFlatParameter(dimension, metric_type, ncentroids) ==
  [dimension |-> dimension, metric_type |-> metric_type, ncentroids |-> ncentroids]

IvfPqParameter(dimension, metric_type, ncentroids, nsubvector, bucket_init_size, bucket_max_size) ==
  [dimension |-> dimension, metric_type |-> metric_type,
   ncentroids |-> ncentroids, nsubvector |-> nsubvector,
   bucket_init_size |-> bucket_init_size, bucket_max_size |-> bucket_max_size]

DiskAnnParameter(dimension, metric_type, num_trees, num_neighbors, num_threads) ==
  [dimension |-> dimension, metric_type |-> metric_type,
   num_trees |-> num_trees, num_neighbors |-> num_neighbors,
   num_threads |-> num_threads]

\* a vector_index_parameter: its vector_index_type, the name of the
\* parameter block that is set ("none" when no block is set) and the block
VectorIndexParameter(vector_index_type, block, parameter) ==
  [vector_index_type |-> vector_index_type, block |-> block, parameter |-> parameter]

NoVectorIndexParameter ==
  VectorIndexParameter("VECTOR_INDEX_TYPE_NONE", "none", FlatParameter(0, "METRIC_TYPE_NONE"))

\* an index_parameter: index_type, whether vector_index_parameter /
\* scalar_index_parameter are set, and their contents
IndexParameter(index_type, has_vector, vector, has_scalar, scalar_index_type) ==
  [index_type |-> index_type,
   has_vector_index_parameter |-> has_vector, vector_index_parameter |-> vector,
   has_scalar_index_parameter |-> has_scalar, scalar_index_type |-> scalar_index_type]

NoIndexParameter ==
  IndexParameter("INDEX_TYPE_NONE", FALSE, NoVectorIndexParameter, FALSE, "SCALAR_INDEX_TYPE_NONE")

ScalarIndexParameter(scalar_index_type) ==
  IndexParameter("INDEX_TYPE_SCALAR", FALSE, NoVectorIndexParameter, TRUE, scalar_index_type)

VectorParameter(vector) ==
  IndexParameter("INDEX_TYPE_VECTOR", TRUE, vector, FALSE, "SCALAR_INDEX_TYPE_NONE")

\* a table or index definition: its name, the kind of partition it carries
\* ("none": no table_partition / index_partition; "hash"; "unset": a
\* partition with neither hash nor range; "range"), the number of ranges of
\* the range partition, the replica number (left unset in the definitions
\* used here), whether it asks for an auto-increment series (a
\* table: one of its columns is an auto-increment column; an index:
\* with_auto_incrment), and the index_parameter (an index only)
Definition(name, partition, nranges, auto, index_parameter) ==
  [name |-> name, partition |-> partition, nranges |-> nranges, replica |-> 0,
   auto_increment |-> auto, index_parameter |-> index_parameter]

\* the definitions that pass the checks declare 1..MaxRanges ranges; the one
\* with a single range asks for an auto-increment series
LegalTableDefinitions ==
  {Definition(n, "range", k, k = 1, NoIndexParameter) : n \in Names, k \in 1..MaxRanges}

IllegalTableDefinitions ==
  {Definition(<<"t">>, p, 0, FALSE, NoIndexParameter) :
     p \in {"none", "hash", "unset", "range"}}

TableDefinitions == LegalTableDefinitions \cup IllegalTableDefinitions

LegalIndexDefinitions ==
  {Definition(n, "range", k, k = 1, ScalarIndexParameter("SCALAR_INDEX_TYPE_LSM")) :
     n \in Names, k \in 1..MaxRanges}

IllegalIndexDefinitions ==
  {Definition(<<"t">>, p, 0, FALSE, ScalarIndexParameter("SCALAR_INDEX_TYPE_LSM")) :
     p \in {"none", "hash", "unset", "range"}}
  \cup {Definition(<<"t">>, "range", 1, FALSE, NoIndexParameter),
        Definition(EmptyName, "range", 1, FALSE, ScalarIndexParameter("SCALAR_INDEX_TYPE_LSM"))}

IndexDefinitions == LegalIndexDefinitions \cup IllegalIndexDefinitions

-----------------------------------------------------------------------------
(* ValidateIndexDefinition *)

HnswParameterOk(hp) ==
  /\ hp.dimension > 0
  /\ hp.metric_type # "METRIC_TYPE_NONE"
  /\ hp.efconstruction > 0
  /\ hp.max_elements > 0
  /\ hp.nlinks > 0

FlatParameterOk(fp) ==
  /\ fp.dimension > 0
  /\ fp.metric_type # "METRIC_TYPE_NONE"

IvfFlatParameterOk(ip) ==
  /\ ip.dimension > 0
  /\ ip.metric_type # "METRIC_TYPE_NONE"
  /\ ip.ncentroids > 0

\* IvfPqParameterOk without the checks of the bucket sizes
IvfPqParameterOk_NoBuckets(ip) ==
  /\ ip.dimension > 0
  /\ ip.metric_type # "METRIC_TYPE_NONE"
  /\ ip.ncentroids > 0
  /\ ip.nsubvector > 0

IvfPqParameterOk(ip) ==
  /\ ip.dimension > 0
  /\ ip.metric_type # "METRIC_TYPE_NONE"
  /\ ip.ncentroids > 0
  /\ ip.nsubvector > 0
  /\ ip.bucket_init_size > 0
  /\ ip.bucket_max_size > 0

DiskAnnParameterOk(dp) ==
  /\ dp.dimension > 0
  /\ dp.metric_type # "METRIC_TYPE_NONE"
  /\ dp.num_trees > 0
  /\ dp.num_neighbors > 0
  /\ dp.num_threads > 0

\* the checks of a set vector_index_parameter: for the vector_index_type,
\* the matching block must be set and its numbers legal
ValidateVectorIndexParameter(vp) ==
  LET t == vp.vector_index_type IN
  IF t = "VECTOR_INDEX_TYPE_NONE" THEN EILLEGAL_PARAMTETERS
  ELSE IF t = "VECTOR_INDEX_TYPE_HNSW"
            /\ ~(vp.block = "hnsw" /\ HnswParameterOk(vp.parameter))
    THEN EILLEGAL_PARAMTETERS
  ELSE IF t = "VECTOR_INDEX_TYPE_FLAT"
            /\ ~(vp.block = "flat" /\ FlatParameterOk(vp.parameter))
    THEN EILLEGAL_PARAMTETERS
  ELSE IF t = "VECTOR_INDEX_TYPE_IVF_FLAT"
            /\ ~(vp.block = "ivf_flat" /\ IvfFlatParameterOk(vp.parameter))
    THEN EILLEGAL_PARAMTETERS
  ELSE IF t = "VECTOR_INDEX_TYPE_IVF_PQ"
            /\ ~(vp.block = "ivf_pq" /\ IvfPqParameterOk(vp.parameter))
    THEN EILLEGAL_PARAMTETERS
  ELSE IF t = "VECTOR_INDEX_TYPE_DISKANN"
            /\ ~(vp.block = "diskann" /\ DiskAnnParameterOk(vp.parameter))
    THEN EILLEGAL_PARAMTETERS
  ELSE OK

ValidateIndexDefinition(index_definition) ==
  LET index_parameter == index_definition.index_parameter IN
  IF index_definition.name = EmptyName THEN EILLEGAL_PARAMTETERS
  ELSE IF index_parameter.index_type = "INDEX_TYPE_NONE" THEN EILLEGAL_PARAMTETERS
  ELSE IF index_parameter.index_type = "INDEX_TYPE_VECTOR"
    THEN IF ~index_parameter.has_vector_index_parameter THEN EILLEGAL_PARAMTETERS
         ELSE ValidateVectorIndexParameter(index_parameter.vector_index_parameter)
  ELSE IF index_parameter.index_type = "INDEX_TYPE_SCALAR"
    THEN IF ~index_parameter.has_scalar_index_parameter THEN EILLEGAL_PARAMTETERS
         ELSE IF index_parameter.scalar_index_type = "SCALAR_INDEX_TYPE_NONE"
           THEN EILLEGAL_PARAMTETERS
         ELSE OK
  ELSE OK

\* PartitionOk without the check of ranges_size()
PartitionOk_AnyRanges(definition) == definition.partition = "range"

\* the partition checks of CreateTable and CreateIndex
PartitionOk(definition) == definition.partition = "range" /\ definition.nranges # 0

-----------------------------------------------------------------------------
(* Meta-increment: the change-set a call builds *)

\* call: (history) the number of the call that built it
MetaIncrement(callno) ==
  [call |-> callno, idepochs |-> <<>>, regions |-> <<>>, schemas |-> <<>>,
   tables |-> <<>>, indexes |-> <<>>]

EmptyMetaIncrement == MetaIncrement(0)

\* how many entries of a list equal kind
RECURSIVE CountKind(_, _)
CountKind(list, kind) ==
  IF list = <<>> THEN 0
  ELSE (IF Head(list) = kind THEN 1 ELSE 0) + CountKind(Tail(list), kind)

-----------------------------------------------------------------------------
(* State *)

VARIABLES
  \* replicated catalog store, changed only when a meta-increment is applied
  schema_map_,      \* schema id -> SchemaInternal
  table_map_,       \* table id -> TableInternal
  index_map_,       \* index id -> IndexInternal
  region_map_,      \* region id -> Region
  id_epoch_map_,    \* IdEpochType -> applied counter
  \* leader-local state, changed while a call builds its meta-increment
  id_epoch_map_safe_temp_,      \* IdEpochType -> last value handed out
  schema_name_map_safe_temp_,   \* schema name -> schema id
  table_name_map_safe_temp_,    \* to_string(schema_id) + table name -> table id
  index_name_map_safe_temp_,    \* to_string(schema_id) + index name -> index id
  \* replicated log: the meta-increments submitted and not yet applied
  log,
  \* worker threads
  pc,               \* where each thread is in its call
  call,             \* the arguments and locals of the call a thread runs
  ret,              \* what the call a thread ran last returned
  \* history
  ncalls,           \* calls that got past their parameter checks so far
  applied_creates   \* per id kind, the ids of the CREATE entries applied, in order

VARIABLES
  \* the metrics field of the regions of region_map_, for the regions whose
  \* store has reported any: region id -> RegionMetrics
  region_metrics_,
  \* leader-local metrics caches
  table_metrics_map_,               \* table id -> TableMetricsInternal
  index_metrics_map_,               \* index id -> IndexMetricsInternal
  \* observability counters
  coordinator_bvar_metrics_table_,  \* table id -> the values exported for it
  coordinator_bvar_metrics_index_,  \* index id -> the values exported for it
  \* threads serving reads
  mpc,              \* where each thread is in its read
  mcall,            \* the arguments and locals of the read a thread runs
  mret,             \* what the read a thread ran last returned
  \* the thread of the periodic sweep
  sweep,
  \* history
  nreads,           \* reads started so far
  nupdates,         \* changes of the regions from outside so far
  nsweeps,          \* sweeps started so far
  admitted,         \* per cache, the ids a GetTableMetrics / GetIndexMetrics call inserted
  last,             \* per table, what the last GetTableMetrics returned
  refreshed         \* the tables whose cache entry a sweep recomputed since the regions last changed

VARIABLES
  \* the benchmark client
  FLAGS,            \* the command-line flags: region_num, concurrency, req_num, timelimit
  bench_pc,         \* where the thread of Benchmark::Run is
  region_entries,   \* the regions ArrangeRegion created, in order
  thread_entries_,  \* the workers started so far: is_stop, position, quota, counters
  elapsed,          \* milliseconds since IntervalReport took cumulative_start_time
  \* history
  dropped,          \* the region ids DropRegion was called with, in order
  executed,         \* Execute calls made so far, over all workers
  stop_called       \* whether IntervalReport has called Stop

bench_ == <<FLAGS, bench_pc, region_entries, thread_entries_, elapsed,
            dropped, executed, stop_called>>

metrics_ == <<region_metrics_, table_metrics_map_, index_metrics_map_,
              coordinator_bvar_metrics_table_, coordinator_bvar_metrics_index_,
              mpc, mcall, mret, sweep, nreads, nupdates, nsweeps, admitted, last, refreshed>>

catalog == <<schema_map_, table_map_, index_map_, region_map_, id_epoch_map_>>
names == <<schema_name_map_safe_temp_, table_name_map_safe_temp_, index_name_map_safe_temp_>>
\* the state of the catalog, the leader and its callers
vars_meta == <<schema_map_, table_map_, index_map_, region_map_, id_epoch_map_,
               id_epoch_map_safe_temp_, schema_name_map_safe_temp_,
               table_name_map_safe_temp_, index_name_map_safe_temp_,
               log, pc, call, ret, ncalls, applied_creates>>

vars == <<schema_map_, table_map_, index_map_, region_map_, id_epoch_map_,
          id_epoch_map_safe_temp_, schema_name_map_safe_temp_,
          table_name_map_safe_temp_, index_name_map_safe_temp_,
          log, pc, call, ret, ncalls, applied_creates, metrics_, bench_>>

-----------------------------------------------------------------------------
(* Metrics: records, the threads that read, the sweep, and the history     *)

\* a byte string is a sequence of bytes 0..255; std::string(n, b)
Bytes(n, b) == [i \in 1..n |-> b]

\* pb::meta::TableMetrics / pb::meta::IndexMetrics as constructed, all unset
NoMetrics == [rows_count |-> 0, min_key |-> <<>>, max_key |-> <<>>, part_count |-> 0]

\* TableMetricsInternal / IndexMetricsInternal: the id and the metrics
MetricsInternal(id, metrics) == [id |-> id, metrics |-> metrics]

\* locals of a read in flight.  History: gone, the table was no longer in
\* the store when the metrics were computed; prev_known, prev, what the call
\* of the same table that returned last before this one started returned;
\* regions_same, no region or table has changed since that call started;
\* undisturbed, nor has a sweep written the cache or another call for the
\* table run since; own_regions_same, own_undisturbed, the same since this
\* call started
MetricsCall(op, schema_id, id) ==
  [op |-> op, schema_id |-> schema_id, id |-> id, internal |-> MetricsInternal(0, NoMetrics),
   gone |-> FALSE, prev_known |-> FALSE, prev |-> NoMetrics, regions_same |-> FALSE,
   undisturbed |-> FALSE, own_regions_same |-> FALSE, own_undisturbed |-> FALSE]

NoMetricsCall == MetricsCall("none", 0, 0)

\* the outcome of a read: the status, the metrics of the response (value),
\* whether they came out of the cache (cached), and the range-distribution
\* entries of the response (entries)
MetricsRet(c, status, value, cached, entries) ==
  [op |-> c.op, schema_id |-> c.schema_id, id |-> c.id, status |-> status,
   value |-> value, cached |-> cached, entries |-> entries, gone |-> c.gone,
   prev_known |-> c.prev_known, prev |-> c.prev, regions_same |-> c.regions_same,
   undisturbed |-> c.undisturbed]

NoMetricsRet == MetricsRet(NoMetricsCall, "none", NoMetrics, FALSE, <<>>)

\* the sweep: which cache it walks (kind), its copy of the cache (temp), the
\* ids of the copy it has not visited yet (todo).  History: clean, no region
\* or table has changed since the sweep started
NoSweep == [kind |-> "none", temp |-> EmptyMap, todo |-> {}, clean |-> FALSE]

MetricsInit ==
  /\ region_metrics_ = EmptyMap
  /\ table_metrics_map_ = EmptyMap
  /\ index_metrics_map_ = EmptyMap
  /\ coordinator_bvar_metrics_table_ = EmptyMap
  /\ coordinator_bvar_metrics_index_ = EmptyMap
  /\ mpc = [p \in Procs |-> "idle"]
  /\ mcall = [p \in Procs |-> NoMetricsCall]
  /\ mret = [p \in Procs |-> NoMetricsRet]
  /\ sweep = NoSweep
  /\ nreads = 0
  /\ nupdates = 0
  /\ nsweeps = 0
  /\ admitted = [table |-> {}, index |-> {}]
  /\ last = EmptyMap
  /\ refreshed = {}

\* History: a region or a table has changed
RegionsChanged ==
  /\ last' = EmptyMap
  /\ refreshed' = {}
  /\ mcall' = [p \in Procs |->
                 IF mcall[p].op = "none" THEN mcall[p]
                 ELSE [mcall[p] EXCEPT !.regions_same = FALSE, !.undisturbed = FALSE,
                                       !.own_regions_same = FALSE, !.own_undisturbed = FALSE]]
  /\ sweep' = [sweep EXCEPT !.clean = FALSE]

\* History: applying a meta-increment changes the regions or the tables when
\* it carries an entry for any
ApplyMetaIncrementHistory(meta) ==
  IF meta.regions # <<>> \/ meta.tables # <<>> \/ meta.indexes # <<>>
    THEN /\ RegionsChanged
         /\ UNCHANGED <<region_metrics_, table_metrics_map_, index_metrics_map_,
                        coordinator_bvar_metrics_table_, coordinator_bvar_metrics_index_,
                        mpc, mret, nreads, nupdates, nsweeps, admitted, bench_>>
    ELSE UNCHANGED <<metrics_, bench_>>

SchemaInternal(id, name) ==
  [id |-> id, name |-> name, table_ids |-> {}, index_ids |-> {}]

\* GenerateRootSchemas: the five reserved schemas
GenerateRootSchemas ==
  [id \in {ROOT_SCHEMA, META_SCHEMA, DINGO_SCHEMA, MYSQL_SCHEMA, INFORMATION_SCHEMA} |->
     SchemaInternal(id,
       CASE id = ROOT_SCHEMA -> <<"r", "o", "o", "t">>
         [] id = META_SCHEMA -> <<"m", "e", "t", "a">>
         [] id = DINGO_SCHEMA -> <<"d", "i", "n", "g", "o">>
         [] id = MYSQL_SCHEMA -> <<"m", "y", "s", "q", "l">>
         [] OTHER -> <<"i", "n", "f", "o", "r", "m", "a", "t", "i", "o", "n",
                       "_", "s", "c", "h", "e", "m", "a">>)]

\* an entry of a name map: the id the code stores, and (history) the call
\* that made the reservation
NameEntry(id, callno) == [id |-> id, call |-> callno]

NoDefinition == Definition(EmptyName, "none", 0, FALSE, NoIndexParameter)

\* AutoIncrementControl: a request to create the series of a table or index,
\* with the answer of the service, and a request to delete it, which has no
\* answer
SyncSendCreateAutoIncrementInternal(id, ok) == [op |-> "create", id |-> id, ok |-> ok]
AsyncSendDeleteAutoIncrementInternal(id) == [op |-> "delete", id |-> id, ok |-> TRUE]

\* locals of a call in flight.  History: retry, the call repeats the call its
\* thread ran just before, which gave up for lack of regions; during, the
\* threads that were running a call when this call started
Call(op, callno, schema_id, definition, new_id, retry, during) ==
  [op |-> op, call |-> callno, schema_id |-> schema_id, definition |-> definition,
   new_id |-> new_id, retry |-> retry, during |-> during,
   meta |-> MetaIncrement(callno), auto_increments |-> <<>>]

NoCall == Call("none", 0, 0, NoDefinition, 0, FALSE, {})

\* the outcome of a finished call: its status, the meta-increment as the call
\* left it, the regions it created, the DropRegion requests it issued and the
\* requests it sent to the auto-increment service
Ret(c, status, meta, new_region_ids, drop_requests) ==
  [op |-> c.op, call |-> c.call, status |-> status, schema_id |-> c.schema_id,
   definition |-> c.definition, new_id |-> c.new_id, retry |-> c.retry,
   during |-> c.during, meta |-> meta, new_region_ids |-> new_region_ids,
   drop_requests |-> drop_requests, auto_increments |-> c.auto_increments]

NoRet == Ret(NoCall, "none", EmptyMetaIncrement, <<>>, <<>>)

\* the flags' defaults; no region and no worker yet
DefaultFlags == [region_num |-> 1, concurrency |-> 1, req_num |-> 10000, timelimit |-> 0]

BenchInit ==
  /\ FLAGS = DefaultFlags
  /\ bench_pc = "main"
  /\ region_entries = <<>>
  /\ thread_entries_ = <<>>
  /\ elapsed = 0
  /\ dropped = <<>>
  /\ executed = 0
  /\ stop_called = FALSE

Init ==
  /\ schema_map_ = GenerateRootSchemas
  /\ table_map_ = EmptyMap
  /\ index_map_ = EmptyMap
  /\ region_map_ = EmptyMap
  /\ id_epoch_map_ = [k \in IdEpochType |-> COORDINATOR_ID_OF_MAP_MIN]
  /\ id_epoch_map_safe_temp_ = [k \in IdEpochType |-> COORDINATOR_ID_OF_MAP_MIN]
  /\ schema_name_map_safe_temp_ =
       [n \in {GenerateRootSchemas[i].name : i \in DOMAIN GenerateRootSchemas} |->
          NameEntry((CHOOSE i \in DOMAIN GenerateRootSchemas : GenerateRootSchemas[i].name = n), 0)]
  /\ table_name_map_safe_temp_ = EmptyMap
  /\ index_name_map_safe_temp_ = EmptyMap
  /\ log = <<>>
  /\ pc = [p \in Procs |-> "idle"]
  /\ call = [p \in Procs |-> NoCall]
  /\ ret = [p \in Procs |-> NoRet]
  /\ ncalls = 0
  /\ applied_creates = [k \in {ID_NEXT_SCHEMA, ID_NEXT_TABLE} |-> <<>>]
  /\ MetricsInit
  /\ BenchInit

-----------------------------------------------------------------------------
(* Id/epoch allocator and region service, as seen by the builder.  A       *)
(* builder state b carries the leader's generator (temp), the call's       *)
(* meta-increment (meta), the value last returned (value) and the region   *)
(* ids collected so far (ids).                                             *)

Builder(temp, meta) == [temp |-> temp, meta |-> meta, value |-> 0, ids |-> <<>>]

\* GetNextId(key, meta_increment): the leader-owned generator hands out the
\* next value of key, and an entry is appended to the meta-increment that
\* adds 1 to the applied counter when the meta-increment is applied
GetNextId(key, b) ==
  LET value == b.temp[key] + 1 IN
  [b EXCEPT !.temp = [b.temp EXCEPT ![key] = value],
            !.meta.idepochs = Append(@, [id |-> key, value |-> value]),
            !.value = value]

IdEpochKinds(meta) == [i \in 1..Len(meta.idepochs) |-> meta.idepochs[i].id]

\* how often the meta-increment increments the counter key
Increments(meta, key) == CountKind(IdEpochKinds(meta), key)

\* Region Service, CreateRegion returning OK: a region id is allocated and a
\* CREATE entry for the region is appended to the caller's meta-increment
CreateRegion(region_name, region_type, replica, range, schema_id, table_id, index_id, b) ==
  LET g == GetNextId(ID_NEXT_REGION, b) IN
  [g EXCEPT !.meta.regions =
     Append(@, [id |-> g.value, op_type |-> CREATE,
                region |-> [id |-> g.value, name |-> region_name,
                            region_type |-> region_type, replica |-> replica,
                            range |-> range, schema_id |-> schema_id,
                            table_id |-> table_id, index_id |-> index_id,
                            peers |-> <<>>, leader_store_id |-> 0]])]

NoRegion ==
  [id |-> 0, name |-> <<>>, region_type |-> "none", replica |-> 0, range |-> 0,
   schema_id |-> 0, table_id |-> 0, index_id |-> 0, peers |-> <<>>, leader_store_id |-> 0]

\* Region Service, DropRegion returning OK: a DELETE entry for the region is
\* appended to the caller's meta-increment
DropRegion(region_id, b) ==
  [b EXCEPT !.meta.regions =
     Append(@, [id |-> region_id, op_type |-> DELETE, region |-> NoRegion])]

\* DropRegion is requested for every region of a list, in order, from position
\* i on; the requests at the positions in failed return an error and append
\* nothing
RECURSIVE DropRegionsFrom(_, _, _, _)
DropRegionsFrom(region_ids, i, failed, b) ==
  IF i > Len(region_ids) THEN b
  ELSE DropRegionsFrom(region_ids, i + 1, failed,
                       IF i \in failed THEN b ELSE DropRegion(region_ids[i], b))

DropRegions(region_ids, failed, b) == DropRegionsFrom(region_ids, 1, failed, b)

Range(seq) == {seq[i] : i \in 1..Len(seq)}

-----------------------------------------------------------------------------
(* A thread starts and finishes a call *)

\* a thread takes a call when it runs none
CanStart(p) == pc[p] \in {"idle", "returned"}

\* the threads that run a call
Running == {q \in Procs : pc[q] \notin {"idle", "returned"}}

\* the call returns at once: nothing but its outcome is recorded
ReturnAtOnce(p, c, status) ==
  /\ pc' = [pc EXCEPT ![p] = "returned"]
  /\ call' = [call EXCEPT ![p] = NoCall]
  /\ ret' = [ret EXCEPT ![p] = Ret([c EXCEPT !.call = 0], status, EmptyMetaIncrement,
                                   <<>>, <<>>)]
  /\ UNCHANGED <<catalog, names, id_epoch_map_safe_temp_, log, ncalls, applied_creates, metrics_, bench_>>

\* a call in flight returns; the caller submits the meta-increment of a call
\* that returned OK to the replicated log and discards any other
Return(p, r) ==
  /\ r.status = OK => Len(log) < MaxPending
  /\ pc' = [pc EXCEPT ![p] = "returned"]
  /\ call' = [call EXCEPT ![p] = NoCall]
  /\ ret' = [ret EXCEPT ![p] = r]
  /\ log' = IF r.status = OK THEN Append(log, r.meta) ELSE log

\* the caller has looked at the outcome
Forget(p) ==
  /\ pc[p] = "returned"
  /\ pc' = [pc EXCEPT ![p] = "idle"]
  /\ ret' = [ret EXCEPT ![p] = NoRet]
  /\ UNCHANGED <<catalog, names, id_epoch_map_safe_temp_, log, call, ncalls,
                 applied_creates, metrics_, bench_>>

\* the call a thread starts repeats, with the same schema and definition, the
\* call the thread ran just before, and that call gave up for lack of regions
Retries(p, op, schema_id, definition) ==
  /\ pc[p] = "returned"
  /\ ret[p].op = op
  /\ ret[p].status \in {ETABLE_REGION_CREATE_FAILED, EINDEX_REGION_CREATE_FAILED}
  /\ ret[p].schema_id = schema_id
  /\ ret[p].definition = definition

-----------------------------------------------------------------------------
(* CreateSchema *)

\* the name is taken when Get finds a value for it
CreateSchemaNameExists(value) == value # 0

\* the reservation of the schema name
CreateSchemaReserve(map, schema_name, entry) ==
  [ok |-> PutIfAbsentOk(map, schema_name), map |-> PutIfAbsent(map, schema_name, entry)]

\* CreateSchemaIncrement with the entry of the schema appended twice
CreateSchemaIncrement_Twice(parent_schema_id, new_schema_id, schema_name, b) ==
  LET e == [id |-> new_schema_id, op_type |-> CREATE, schema_id |-> parent_schema_id,
            schema_internal |-> SchemaInternal(new_schema_id, schema_name)]
  IN GetNextId(EPOCH_SCHEMA, [b EXCEPT !.meta.schemas = Append(Append(@, e), e)])

\* the schema entry and the epoch entry of the meta-increment
CreateSchemaIncrement(parent_schema_id, new_schema_id, schema_name, b) ==
  GetNextId(EPOCH_SCHEMA,
    [b EXCEPT !.meta.schemas =
       Append(@, [id |-> new_schema_id, op_type |-> CREATE,
                  schema_id |-> parent_schema_id,
                  schema_internal |-> SchemaInternal(new_schema_id, schema_name)])])

\* CreateSchemaIllegalName accepting every name
CreateSchemaIllegalName_None(schema_name) == FALSE

\* schema_name.empty()
CreateSchemaIllegalName(schema_name) == schema_name = EmptyName

\* the parameter checks, the lookup of the name and the allocation of the id
CreateSchemaBegin(p, parent_schema_id, schema_name) ==
  LET c == Call("CreateSchema", ncalls + 1, parent_schema_id,
                Definition(schema_name, "none", 0, FALSE, NoIndexParameter), 0, FALSE,
                Running)
  IN
  /\ CanStart(p)
  /\ IF parent_schema_id # ROOT_SCHEMA THEN ReturnAtOnce(p, c, EILLEGAL_PARAMTETERS)
     ELSE IF CreateSchemaIllegalName(schema_name)
       THEN ReturnAtOnce(p, c, EILLEGAL_PARAMTETERS)
     ELSE IF CreateSchemaNameExists(GetValue(schema_name_map_safe_temp_, schema_name))
       THEN ReturnAtOnce(p, c, ESCHEMA_EXISTS)
     ELSE LET b == GetNextId(ID_NEXT_SCHEMA, Builder(id_epoch_map_safe_temp_, c.meta)) IN
          /\ id_epoch_map_safe_temp_' = b.temp
          /\ call' = [call EXCEPT ![p] = [c EXCEPT !.new_id = b.value, !.meta = b.meta]]
          /\ pc' = [pc EXCEPT ![p] = "CreateSchemaPut"]
          /\ ncalls' = ncalls + 1
          /\ UNCHANGED <<catalog, names, log, ret, applied_creates, metrics_, bench_>>

\* the reservation of the name and the entries of the meta-increment
CreateSchemaPut(p) ==
  LET c == call[p]
      put == CreateSchemaReserve(schema_name_map_safe_temp_, c.definition.name,
                                 NameEntry(c.new_id, c.call))
  IN
  /\ pc[p] = "CreateSchemaPut"
  /\ schema_name_map_safe_temp_' = put.map
  /\ IF ~put.ok
       THEN /\ Return(p, Ret(c, ESCHEMA_EXISTS, c.meta, <<>>, <<>>))
            /\ UNCHANGED id_epoch_map_safe_temp_
     ELSE LET b == CreateSchemaIncrement(c.schema_id, c.new_id, c.definition.name,
                                         Builder(id_epoch_map_safe_temp_, c.meta)) IN
          /\ id_epoch_map_safe_temp_' = b.temp
          /\ Return(p, Ret(c, OK, b.meta, <<>>, <<>>))
  /\ UNCHANGED <<catalog, table_name_map_safe_temp_, index_name_map_safe_temp_,
                 ncalls, applied_creates, metrics_, bench_>>

-----------------------------------------------------------------------------
(* DropSchema *)

\* DropSchemaIllegalId rejecting nothing but a negative id
DropSchemaIllegalId_Negative(schema_id) == schema_id < 0

\* the ids DropSchema refuses: the reserved schemas lie below the first id
\* the generators hand out
DropSchemaIllegalId(schema_id) == schema_id <= COORDINATOR_ID_OF_MAP_MIN

\* a schema that still has children is not dropped
DropSchemaNotEmpty(schema_internal) == Cardinality(schema_internal.table_ids) > 0

\* the epoch entry and the schema entry of the meta-increment
DropSchemaIncrement(parent_schema_id, schema_id, schema_internal, b) ==
  LET g == GetNextId(EPOCH_SCHEMA, b) IN
  [g EXCEPT !.meta.schemas =
     Append(@, [id |-> schema_id, op_type |-> DELETE, schema_id |-> parent_schema_id,
                schema_internal |-> schema_internal])]

DropSchema(p, parent_schema_id, schema_id) ==
  LET c == Call("DropSchema", ncalls + 1, schema_id, NoDefinition, 0, FALSE, Running) IN
  /\ CanStart(p)
  /\ IF DropSchemaIllegalId(schema_id) THEN ReturnAtOnce(p, c, EILLEGAL_PARAMTETERS)
     ELSE IF ~Exists(schema_map_, schema_id) THEN ReturnAtOnce(p, c, ESCHEMA_NOT_FOUND)
     ELSE IF DropSchemaNotEmpty(schema_map_[schema_id])
       THEN ReturnAtOnce(p, c, ESCHEMA_NOT_EMPTY)
     ELSE LET schema_internal_to_delete == schema_map_[schema_id]
              b == DropSchemaIncrement(parent_schema_id, schema_id, schema_internal_to_delete,
                                       Builder(id_epoch_map_safe_temp_, c.meta))
          IN
          /\ id_epoch_map_safe_temp_' = b.temp
          /\ schema_name_map_safe_temp_' =
               Erase(schema_name_map_safe_temp_, schema_internal_to_delete.name)
          /\ Return(p, Ret(c, OK, b.meta, <<>>, <<>>))
          /\ ncalls' = ncalls + 1
          /\ UNCHANGED <<catalog, table_name_map_safe_temp_, index_name_map_safe_temp_,
                         applied_creates, metrics_, bench_>>

-----------------------------------------------------------------------------
(* CreateTable *)

TableInternal(id, schema_id, definition, partitions) ==
  [id |-> id, schema_id |-> schema_id, definition |-> definition,
   partitions |-> partitions]

\* HasAutoIncrementColumn finding an auto-increment column in every table
HasAutoIncrementColumn_Always(table_definition) == TRUE

\* CheckAutoIncrementInTableDefinition: whether a column of the table is an
\* auto-increment column
HasAutoIncrementColumn(table_definition) == table_definition.auto_increment

\* the name is taken when Get finds a value for it
CreateTableNameExists(value) == value # 0

\* a table id is allocated unless the caller gave one
CreateTableNeedsId(new_table_id) == new_table_id <= 0

\* CreateTableReserve with Put instead of PutIfAbsent
CreateTableReserve_Overwrite(map, schema_id, name, entry) ==
  [ok |-> TRUE, map |-> Put(map, NameKey(schema_id, name), entry)]

\* the reservation of the table name
CreateTableReserve(map, schema_id, name, entry) ==
  [ok |-> PutIfAbsentOk(map, NameKey(schema_id, name)),
   map |-> PutIfAbsent(map, NameKey(schema_id, name), entry)]

CreateTableRegionName(schema_id, name, i) ==
  <<"T", "_">> \o to_string(schema_id) \o <<"_">> \o name
    \o <<"_", "p", "a", "r", "t", "_">> \o to_string(i)

CreateTableReplica(table_definition) ==
  IF table_definition.replica < 1 THEN DEFAULT_REPLICA ELSE table_definition.replica

\* the loop over the ranges i, i + 1, ...: CreateRegion succeeds for the ranges
\* below created, the region ids are collected in b.ids
RECURSIVE CreateTableRegionLoop(_, _, _, _)
CreateTableRegionLoop(c, i, created, b) ==
  IF i >= created THEN b
  ELSE LET g == CreateRegion(CreateTableRegionName(c.schema_id, c.definition.name, i),
                             "STORE_REGION", CreateTableReplica(c.definition), i,
                             c.schema_id, c.new_id, 0, b)
       IN CreateTableRegionLoop(c, i + 1, created, [g EXCEPT !.ids = Append(@, g.value)])

\* fewer regions than ranges: the created regions are dropped
CreateTableNotEnoughRegions(new_region_ids, ranges_size) ==
  Len(new_region_ids) < ranges_size

\* CreateTableRegionsToDelete without the loop over the created regions
CreateTableRegionsToDelete_None(new_region_ids) == <<>>

\* the regions CreateTable asks to drop when it gives up
CreateTableRegionsToDelete(new_region_ids) == new_region_ids

\* CreateTableRelease without the Erase
CreateTableRelease_Keep(map, schema_id, name) == map

\* the name map after CreateTable gave up
CreateTableRelease(map, schema_id, name) == Erase(map, NameKey(schema_id, name))

\* CreateTablePartitions walking the region ids backwards
CreateTablePartitions_Reversed(new_region_ids) ==
  [i \in 1..Len(new_region_ids) |->
     [region_id |-> new_region_ids[Len(new_region_ids) + 1 - i]]]

\* one partition per created region, in the order of creation
CreateTablePartitions(new_region_ids) ==
  [i \in 1..Len(new_region_ids) |-> [region_id |-> new_region_ids[i]]]

\* the entries of a successful CreateTable: EPOCH_REGION, EPOCH_TABLE and the
\* table entry
CreateTableIncrement(schema_id, new_table_id, table_definition, new_region_ids, b) ==
  LET g == GetNextId(EPOCH_TABLE, GetNextId(EPOCH_REGION, b)) IN
  [g EXCEPT !.meta.tables =
     Append(@, [id |-> new_table_id, op_type |-> CREATE,
                table |-> TableInternal(new_table_id, schema_id, table_definition,
                                        CreateTablePartitions(new_region_ids))])]

\* the checks, the lookup of the name, the allocation of the id and the
\* creation of the auto-increment series (which succeeds or fails)
CreateTableBegin(p, schema_id, table_definition, new_table_id, auto_increment_ok) ==
  LET c == Call("CreateTable", ncalls + 1, schema_id, table_definition, new_table_id,
                Retries(p, "CreateTable", schema_id, table_definition), Running)
  IN
  /\ CanStart(p)
  /\ IF schema_id = ROOT_SCHEMA THEN ReturnAtOnce(p, c, EILLEGAL_PARAMTETERS)
     ELSE IF ~Exists(schema_map_, schema_id) THEN ReturnAtOnce(p, c, EILLEGAL_PARAMTETERS)
     ELSE IF ~PartitionOk(table_definition)
       THEN ReturnAtOnce(p, c, ETABLE_DEFINITION_ILLEGAL)
     ELSE IF CreateTableNameExists(GetValue(table_name_map_safe_temp_,
                                            NameKey(schema_id, table_definition.name)))
       THEN ReturnAtOnce(p, c, ETABLE_EXISTS)
     ELSE LET b0 == Builder(id_epoch_map_safe_temp_, c.meta)
              b == IF CreateTableNeedsId(new_table_id)
                     THEN GetNextId(ID_NEXT_TABLE, b0)
                     ELSE [b0 EXCEPT !.value = new_table_id]
              c1 == [c EXCEPT !.new_id = b.value, !.meta = b.meta,
                              !.auto_increments =
                                 IF HasAutoIncrementColumn(table_definition)
                                   THEN <<SyncSendCreateAutoIncrementInternal(
                                            b.value, auto_increment_ok)>>
                                   ELSE <<>>]
          IN
          /\ id_epoch_map_safe_temp_' = b.temp
          /\ ncalls' = ncalls + 1
          /\ IF HasAutoIncrementColumn(table_definition) /\ ~auto_increment_ok
               THEN /\ Return(p, Ret(c1, EAUTO_INCREMENT_WHILE_CREATING_TABLE, c1.meta,
                                     <<>>, <<>>))
               ELSE /\ call' = [call EXCEPT ![p] = c1]
                    /\ pc' = [pc EXCEPT ![p] = "CreateTablePut"]
                    /\ UNCHANGED <<log, ret>>
          /\ UNCHANGED <<catalog, names, applied_creates, metrics_, bench_>>

\* the reservation of the name
CreateTablePut(p) ==
  LET c == call[p]
      put == CreateTableReserve(table_name_map_safe_temp_, c.schema_id,
                                c.definition.name, NameEntry(c.new_id, c.call))
  IN
  /\ pc[p] = "CreateTablePut"
  /\ table_name_map_safe_temp_' = put.map
  /\ IF ~put.ok
       THEN Return(p, Ret(c, ETABLE_EXISTS, c.meta, <<>>, <<>>))
       ELSE /\ pc' = [pc EXCEPT ![p] = "CreateTableRegions"]
            /\ UNCHANGED <<call, ret, log>>
  /\ UNCHANGED <<catalog, schema_name_map_safe_temp_, index_name_map_safe_temp_,
                 id_epoch_map_safe_temp_, ncalls, applied_creates, metrics_, bench_>>

\* the creation of the regions (CreateRegion fails for the range numbered
\* created, if there is one), then either the compensation (DropRegion fails
\* for the regions at the positions in failed) or the entries of the
\* meta-increment
CreateTableRegions(p, created, failed) ==
  LET c == call[p]
      b == CreateTableRegionLoop(c, 0, created, Builder(id_epoch_map_safe_temp_, c.meta))
  IN
  /\ pc[p] = "CreateTableRegions"
  /\ created \in 0..c.definition.nranges
  /\ failed \subseteq 1..Len(b.ids)
  /\ IF CreateTableNotEnoughRegions(b.ids, c.definition.nranges)
       THEN LET d == DropRegions(CreateTableRegionsToDelete(b.ids), failed, b) IN
            /\ id_epoch_map_safe_temp_' = d.temp
            /\ table_name_map_safe_temp_' =
                 CreateTableRelease(table_name_map_safe_temp_, c.schema_id, c.definition.name)
            /\ Return(p, Ret(c, ETABLE_REGION_CREATE_FAILED, d.meta, b.ids,
                             CreateTableRegionsToDelete(b.ids)))
     ELSE LET d == CreateTableIncrement(c.schema_id, c.new_id, c.definition, b.ids, b) IN
          /\ failed = {}
          /\ id_epoch_map_safe_temp_' = d.temp
          /\ Return(p, Ret(c, OK, d.meta, b.ids, <<>>))
          /\ UNCHANGED table_name_map_safe_temp_
  /\ UNCHANGED <<catalog, schema_name_map_safe_temp_, index_name_map_safe_temp_,
                 ncalls, applied_creates, metrics_, bench_>>

-----------------------------------------------------------------------------
(* DropTable *)

ValidateSchema(schema_id) == Exists(schema_map_, schema_id)

\* the regions DropTable asks to drop
DropTableRegions(table_internal) ==
  [i \in 1..Len(table_internal.partitions) |-> table_internal.partitions[i].region_id]

\* DropTableIncrement without the bump of EPOCH_TABLE
DropTableIncrement_NoEpoch(table_id, table_internal, b) ==
  [b EXCEPT !.meta.tables =
     Append(@, [id |-> table_id, op_type |-> DELETE, table |-> table_internal])]

\* the table entry and the epoch entry of the meta-increment
DropTableIncrement(table_id, table_internal, b) ==
  GetNextId(EPOCH_TABLE,
    [b EXCEPT !.meta.tables =
       Append(@, [id |-> table_id, op_type |-> DELETE, table |-> table_internal])])

\* the key DropTable erases from the table name map
DropTableNameKey(schema_id, table_internal) ==
  NameKey(schema_id, table_internal.definition.name)

DropTable(p, schema_id, table_id, failed) ==
  LET c == Call("DropTable", ncalls + 1, schema_id, NoDefinition, table_id, FALSE,
                Running) IN
  /\ CanStart(p)
  /\ IF ~ValidateSchema(schema_id)
       THEN failed = {} /\ ReturnAtOnce(p, c, EILLEGAL_PARAMTETERS)
     ELSE IF ~Exists(table_map_, table_id)
       THEN failed = {} /\ ReturnAtOnce(p, c, ETABLE_NOT_FOUND)
     ELSE LET table_internal == table_map_[table_id]
              region_ids == DropTableRegions(table_internal)
              b == DropTableIncrement(table_id, table_internal,
                     DropRegions(region_ids, failed,
                                 Builder(id_epoch_map_safe_temp_, c.meta)))
          IN
          /\ failed \subseteq 1..Len(region_ids)
          /\ id_epoch_map_safe_temp_' = b.temp
          /\ table_name_map_safe_temp_' =
               Erase(table_name_map_safe_temp_, DropTableNameKey(schema_id, table_internal))
          /\ Return(p, Ret([c EXCEPT !.definition = table_internal.definition,
                                      !.auto_increments =
                                         IF HasAutoIncrementColumn(table_internal.definition)
                                           THEN <<AsyncSendDeleteAutoIncrementInternal(table_id)>>
                                           ELSE <<>>],
                           OK, b.meta, <<>>, region_ids))
          /\ ncalls' = ncalls + 1
          /\ UNCHANGED <<catalog, schema_name_map_safe_temp_, index_name_map_safe_temp_,
                         applied_creates, metrics_, bench_>>

-----------------------------------------------------------------------------
(* CreateIndex *)

IndexInternal(id, schema_id, definition, partitions) ==
  [id |-> id, schema_id |-> schema_id, definition |-> definition,
   partitions |-> partitions]

\* with_auto_incrment of the index definition
WithAutoIncrement(index_definition) == index_definition.auto_increment

CreateIndexNameExists(value) == value # 0

\* an index id is allocated, from the table id counter, unless the caller
\* gave one
CreateIndexNeedsId(new_index_id) == new_index_id <= 0

CreateIndexIdKind == ID_NEXT_TABLE

\* the reservation of the index name
CreateIndexReserve(map, schema_id, name, entry) ==
  [ok |-> PutIfAbsentOk(map, NameKey(schema_id, name)),
   map |-> PutIfAbsent(map, NameKey(schema_id, name), entry)]

CreateIndexRegionName(schema_id, name, i) ==
  <<"I", "_">> \o to_string(schema_id) \o <<"_">> \o name
    \o <<"_", "p", "a", "r", "t", "_">> \o to_string(i)

CreateIndexReplica(index_definition) ==
  IF index_definition.replica < 1 THEN DEFAULT_REPLICA ELSE index_definition.replica

RECURSIVE CreateIndexRegionLoop(_, _, _, _)
CreateIndexRegionLoop(c, i, created, b) ==
  IF i >= created THEN b
  ELSE LET g == CreateRegion(CreateIndexRegionName(c.schema_id, c.definition.name, i),
                             "INDEX_REGION", CreateIndexReplica(c.definition), i,
                             c.schema_id, 0, c.new_id, b)
       IN CreateIndexRegionLoop(c, i + 1, created, [g EXCEPT !.ids = Append(@, g.value)])

CreateIndexNotEnoughRegions(new_region_ids, ranges_size) ==
  Len(new_region_ids) < ranges_size

\* CreateIndexRegionsToDelete dropping no region
CreateIndexRegionsToDelete_None(new_region_ids) == <<>>

\* the regions the compensation drops: all that were created
CreateIndexRegionsToDelete(new_region_ids) == new_region_ids

\* CreateIndexRelease without the Erase
CreateIndexRelease_Keep(map, schema_id, name) == map

\* the name map after CreateIndex gave up
CreateIndexRelease(map, schema_id, name) == Erase(map, NameKey(schema_id, name))

CreateIndexPartitions(new_region_ids) ==
  [i \in 1..Len(new_region_ids) |-> [region_id |-> new_region_ids[i]]]

\* the entries of a successful CreateIndex: EPOCH_REGION, EPOCH_INDEX and the
\* index entry
CreateIndexIncrement(schema_id, new_index_id, index_definition, new_region_ids, b) ==
  LET g == GetNextId(EPOCH_INDEX, GetNextId(EPOCH_REGION, b)) IN
  [g EXCEPT !.meta.indexes =
     Append(@, [id |-> new_index_id, op_type |-> CREATE,
                index |-> IndexInternal(new_index_id, schema_id, index_definition,
                                        CreateIndexPartitions(new_region_ids))])]

CreateIndexBegin(p, schema_id, index_definition, new_index_id, auto_increment_ok) ==
  LET c == Call("CreateIndex", ncalls + 1, schema_id, index_definition, new_index_id,
                Retries(p, "CreateIndex", schema_id, index_definition), Running)
  IN
  /\ CanStart(p)
  /\ IF schema_id = ROOT_SCHEMA THEN ReturnAtOnce(p, c, EILLEGAL_PARAMTETERS)
     ELSE IF ~Exists(schema_map_, schema_id) THEN ReturnAtOnce(p, c, EILLEGAL_PARAMTETERS)
     ELSE IF ValidateIndexDefinition(index_definition) # OK
       THEN ReturnAtOnce(p, c, ValidateIndexDefinition(index_definition))
     ELSE IF ~PartitionOk(index_definition)
       THEN ReturnAtOnce(p, c, EINDEX_DEFINITION_ILLEGAL)
     ELSE IF CreateIndexNameExists(GetValue(index_name_map_safe_temp_,
                                            NameKey(schema_id, index_definition.name)))
       THEN ReturnAtOnce(p, c, EINDEX_EXISTS)
     ELSE LET b0 == Builder(id_epoch_map_safe_temp_, c.meta)
              b == IF CreateIndexNeedsId(new_index_id)
                     THEN GetNextId(CreateIndexIdKind, b0)
                     ELSE [b0 EXCEPT !.value = new_index_id]
              c1 == [c EXCEPT !.new_id = b.value, !.meta = b.meta,
                              !.auto_increments =
                                 IF WithAutoIncrement(index_definition)
                                   THEN <<SyncSendCreateAutoIncrementInternal(
                                            b.value, auto_increment_ok)>>
                                   ELSE <<>>]
          IN
          /\ id_epoch_map_safe_temp_' = b.temp
          /\ ncalls' = ncalls + 1
          /\ IF WithAutoIncrement(index_definition) /\ ~auto_increment_ok
               THEN /\ Return(p, Ret(c1, EAUTO_INCREMENT_WHILE_CREATING_TABLE, c1.meta,
                                     <<>>, <<>>))
               ELSE /\ call' = [call EXCEPT ![p] = c1]
                    /\ pc' = [pc EXCEPT ![p] = "CreateIndexPut"]
                    /\ UNCHANGED <<log, ret>>
          /\ UNCHANGED <<catalog, names, applied_creates, metrics_, bench_>>

CreateIndexPut(p) ==
  LET c == call[p]
      put == CreateIndexReserve(index_name_map_safe_temp_, c.schema_id,
                                c.definition.name, NameEntry(c.new_id, c.call))
  IN
  /\ pc[p] = "CreateIndexPut"
  /\ index_name_map_safe_temp_' = put.map
  /\ IF ~put.ok
       THEN Return(p, Ret(c, EINDEX_EXISTS, c.meta, <<>>, <<>>))
       ELSE /\ pc' = [pc EXCEPT ![p] = "CreateIndexRegions"]
            /\ UNCHANGED <<call, ret, log>>
  /\ UNCHANGED <<catalog, schema_name_map_safe_temp_, table_name_map_safe_temp_,
                 id_epoch_map_safe_temp_, ncalls, applied_creates, metrics_, bench_>>

CreateIndexRegions(p, created, failed) ==
  LET c == call[p]
      b == CreateIndexRegionLoop(c, 0, created, Builder(id_epoch_map_safe_temp_, c.meta))
  IN
  /\ pc[p] = "CreateIndexRegions"
  /\ created \in 0..c.definition.nranges
  /\ failed \subseteq 1..Len(b.ids)
  /\ IF CreateIndexNotEnoughRegions(b.ids, c.definition.nranges)
       THEN LET d == DropRegions(CreateIndexRegionsToDelete(b.ids), failed, b) IN
            /\ id_epoch_map_safe_temp_' = d.temp
            /\ index_name_map_safe_temp_' =
                 CreateIndexRelease(index_name_map_safe_temp_, c.schema_id, c.definition.name)
            /\ Return(p, Ret(c, EINDEX_REGION_CREATE_FAILED, d.meta, b.ids,
                             CreateIndexRegionsToDelete(b.ids)))
     ELSE LET d == CreateIndexIncrement(c.schema_id, c.new_id, c.definition, b.ids, b) IN
          /\ failed = {}
          /\ id_epoch_map_safe_temp_' = d.temp
          /\ Return(p, Ret(c, OK, d.meta, b.ids, <<>>))
          /\ UNCHANGED index_name_map_safe_temp_
  /\ UNCHANGED <<catalog, schema_name_map_safe_temp_, table_name_map_safe_temp_,
                 ncalls, applied_creates, metrics_, bench_>>

-----------------------------------------------------------------------------
(* DropIndex *)

DropIndexRegions(index_internal) ==
  [i \in 1..Len(index_internal.partitions) |-> index_internal.partitions[i].region_id]

\* the index entry and the epoch entry of the meta-increment
DropIndexIncrement(index_id, index_internal, b) ==
  GetNextId(EPOCH_INDEX,
    [b EXCEPT !.meta.indexes =
       Append(@, [id |-> index_id, op_type |-> DELETE, index |-> index_internal])])

\* the key DropIndex erases from the index name map
DropIndexNameKey(schema_id, index_internal) ==
  NameKey(schema_id, index_internal.definition.name)

DropIndex(p, schema_id, index_id, failed) ==
  LET c == Call("DropIndex", ncalls + 1, schema_id, NoDefinition, index_id, FALSE,
                Running) IN
  /\ CanStart(p)
  /\ IF ~ValidateSchema(schema_id)
       THEN failed = {} /\ ReturnAtOnce(p, c, EILLEGAL_PARAMTETERS)
     ELSE IF ~Exists(index_map_, index_id)
       THEN failed = {} /\ ReturnAtOnce(p, c, EINDEX_NOT_FOUND)
     ELSE LET index_internal == index_map_[index_id]
              region_ids == DropIndexRegions(index_internal)
              b == DropIndexIncrement(index_id, index_internal,
                     DropRegions(region_ids, failed,
                                 Builder(id_epoch_map_safe_temp_, c.meta)))
          IN
          /\ failed \subseteq 1..Len(region_ids)
          /\ id_epoch_map_safe_temp_' = b.temp
          /\ index_name_map_safe_temp_' =
               Erase(index_name_map_safe_temp_, DropIndexNameKey(schema_id, index_internal))
          /\ Return(p, Ret([c EXCEPT !.definition = index_internal.definition,
                                      !.auto_increments =
                                         IF WithAutoIncrement(index_internal.definition)
                                           THEN <<AsyncSendDeleteAutoIncrementInternal(index_id)>>
                                           ELSE <<>>],
                           OK, b.meta, <<>>, region_ids))
          /\ ncalls' = ncalls + 1
          /\ UNCHANGED <<catalog, schema_name_map_safe_temp_, table_name_map_safe_temp_,
                         applied_creates, metrics_, bench_>>

-----------------------------------------------------------------------------
(* The replicated log applies the oldest submitted meta-increment: its      *)
(* id_epochs, regions, schemas, tables and indexes, in this order, each     *)
(* list in order                                                            *)

RECURSIVE ApplyIdEpochs(_, _)
ApplyIdEpochs(list, id_epoch) ==
  IF list = <<>> THEN id_epoch
  ELSE ApplyIdEpochs(Tail(list), [id_epoch EXCEPT ![Head(list).id] = @ + 1])

RECURSIVE ApplyRegions(_, _)
ApplyRegions(list, region_map) ==
  IF list = <<>> THEN region_map
  ELSE ApplyRegions(Tail(list),
         IF Head(list).op_type = CREATE
           THEN Put(region_map, Head(list).id, Head(list).region)
           ELSE Erase(region_map, Head(list).id))

RECURSIVE ApplySchemas(_, _)
ApplySchemas(list, schema_map) ==
  IF list = <<>> THEN schema_map
  ELSE ApplySchemas(Tail(list),
         IF Head(list).op_type = CREATE
           THEN Put(schema_map, Head(list).id, Head(list).schema_internal)
           ELSE Erase(schema_map, Head(list).id))

\* a table is stored and listed in its schema, or removed from both
RECURSIVE ApplyTables(_, _)
ApplyTables(list, st) ==
  IF list = <<>> THEN st
  ELSE LET e == Head(list)
           sid == e.table.schema_id
       IN ApplyTables(Tail(list),
            IF e.op_type = CREATE
              THEN [st EXCEPT
                      !.table_map = Put(@, e.id, e.table),
                      !.schema_map = IF sid \in DOMAIN @
                                       THEN [@ EXCEPT ![sid].table_ids = @ \cup {e.id}]
                                       ELSE @]
              ELSE [st EXCEPT
                      !.table_map = Erase(@, e.id),
                      !.schema_map = IF sid \in DOMAIN @
                                       THEN [@ EXCEPT ![sid].table_ids = @ \ {e.id}]
                                       ELSE @])

RECURSIVE ApplyIndexes(_, _)
ApplyIndexes(list, st) ==
  IF list = <<>> THEN st
  ELSE LET e == Head(list)
           sid == e.index.schema_id
       IN ApplyIndexes(Tail(list),
            IF e.op_type = CREATE
              THEN [st EXCEPT
                      !.index_map = Put(@, e.id, e.index),
                      !.schema_map = IF sid \in DOMAIN @
                                       THEN [@ EXCEPT ![sid].index_ids = @ \cup {e.id}]
                                       ELSE @]
              ELSE [st EXCEPT
                      !.index_map = Erase(@, e.id),
                      !.schema_map = IF sid \in DOMAIN @
                                       THEN [@ EXCEPT ![sid].index_ids = @ \ {e.id}]
                                       ELSE @])

\* the ids of the CREATE entries of a list, in order
RECURSIVE CreatedIds(_)
CreatedIds(list) ==
  IF list = <<>> THEN <<>>
  ELSE (IF Head(list).op_type = CREATE THEN <<Head(list).id>> ELSE <<>>)
         \o CreatedIds(Tail(list))

ApplyMetaIncrement ==
  /\ log # <<>>
  /\ LET meta == Head(log)
         st0 == [schema_map |-> ApplySchemas(meta.schemas, schema_map_),
                 table_map |-> table_map_, index_map |-> index_map_]
         st == ApplyIndexes(meta.indexes, ApplyTables(meta.tables, st0))
     IN
     /\ id_epoch_map_' = ApplyIdEpochs(meta.idepochs, id_epoch_map_)
     /\ region_map_' = ApplyRegions(meta.regions, region_map_)
     /\ schema_map_' = st.schema_map
     /\ table_map_' = st.table_map
     /\ index_map_' = st.index_map
     /\ applied_creates' =
          [applied_creates EXCEPT
             ![ID_NEXT_SCHEMA] = @ \o CreatedIds(meta.schemas),
             ![ID_NEXT_TABLE] = @ \o CreatedIds(meta.tables) \o CreatedIds(meta.indexes)]
  /\ log' = Tail(log)
  /\ UNCHANGED <<names, id_epoch_map_safe_temp_, pc, call, ret, ncalls>>
  /\ ApplyMetaIncrementHistory(Head(log))

-----------------------------------------------------------------------------
(* Reads by id and by name.  A read changes nothing: it is the status and   *)
(* the entity it returns in the state it is called in                       *)

NoEntity == [id |-> 0, schema_id |-> 0, name |-> EmptyName]

Found(id, schema_id, name) ==
  [status |-> OK, entity |-> [id |-> id, schema_id |-> schema_id, name |-> name]]

NotFound(status) == [status |-> status, entity |-> NoEntity]

GetSchema(schema_id) ==
  IF ~Exists(schema_map_, schema_id) THEN NotFound(ESCHEMA_NOT_FOUND)
  ELSE Found(schema_map_[schema_id].id, ROOT_SCHEMA, schema_map_[schema_id].name)

GetSchemaByName(schema_name) ==
  IF schema_name = EmptyName THEN NotFound(EILLEGAL_PARAMTETERS)
  ELSE IF ~Exists(schema_name_map_safe_temp_, schema_name) THEN NotFound(ESCHEMA_NOT_FOUND)
  ELSE GetSchema(GetValue(schema_name_map_safe_temp_, schema_name))

\* pb::meta::EntityType
ENTITY_TYPE_SCHEMA == "ENTITY_TYPE_SCHEMA"
ENTITY_TYPE_TABLE == "ENTITY_TYPE_TABLE"

DingoCommonId(entity_type, parent_entity_id, entity_id) ==
  [entity_type |-> entity_type, parent_entity_id |-> parent_entity_id,
   entity_id |-> entity_id]

\* the pb::meta::Schema made of an entry of the copy of the schema store
GetSchemasEntry(schema_id, id, schema_internal) ==
  [id |-> DingoCommonId(ENTITY_TYPE_SCHEMA, schema_id, id),
   name |-> schema_internal.name,
   table_ids |-> {DingoCommonId(ENTITY_TYPE_TABLE, id, it_table) :
                    it_table \in schema_internal.table_ids}]

\* GetSchemas into an empty vector: one entry for every schema of the copy of
\* the schema store, in the order of the hash map, which the set leaves open
GetSchemas(schema_id) ==
  IF schema_id # 0 THEN [status |-> EILLEGAL_PARAMTETERS, schemas |-> {}]
  ELSE [status |-> OK,
        schemas |-> {GetSchemasEntry(schema_id, id, schema_map_[id]) :
                       id \in DOMAIN schema_map_}]

\* the response carries the caller's schema_id as the parent of the table
GetTable(schema_id, table_id) ==
  IF table_id <= 0 THEN NotFound(EILLEGAL_PARAMTETERS)
  ELSE IF ~ValidateSchema(schema_id) THEN NotFound(ESCHEMA_NOT_FOUND)
  ELSE IF ~Exists(table_map_, table_id) THEN NotFound(ETABLE_NOT_FOUND)
  ELSE Found(table_id, schema_id, table_map_[table_id].definition.name)

GetTableByName(schema_id, table_name) ==
  IF table_name = EmptyName THEN NotFound(EILLEGAL_PARAMTETERS)
  ELSE IF ~ValidateSchema(schema_id) THEN NotFound(ESCHEMA_NOT_FOUND)
  ELSE IF ~Exists(table_name_map_safe_temp_, NameKey(schema_id, table_name))
    THEN NotFound(ETABLE_NOT_FOUND)
  ELSE GetTable(schema_id, GetValue(table_name_map_safe_temp_, NameKey(schema_id, table_name)))

GetIndex(schema_id, index_id) ==
  IF index_id <= 0 THEN NotFound(EILLEGAL_PARAMTETERS)
  ELSE IF ~ValidateSchema(schema_id) THEN NotFound(ESCHEMA_NOT_FOUND)
  ELSE IF ~Exists(index_map_, index_id) THEN NotFound(EINDEX_NOT_FOUND)
  ELSE Found(index_id, schema_id, index_map_[index_id].definition.name)

GetIndexByName(schema_id, index_name) ==
  IF index_name = EmptyName THEN NotFound(EILLEGAL_PARAMTETERS)
  ELSE IF ~ValidateSchema(schema_id) THEN NotFound(ESCHEMA_NOT_FOUND)
  ELSE IF ~Exists(index_name_map_safe_temp_, NameKey(schema_id, index_name))
    THEN NotFound(EINDEX_NOT_FOUND)
  ELSE GetIndex(schema_id, GetValue(index_name_map_safe_temp_, NameKey(schema_id, index_name)))

-----------------------------------------------------------------------------
(* Metrics aggregation *)

\* an unsigned 64-bit value, as four 16-bit limbs, the most significant first
Limb == 2^16

\* the conversion of an int to uint64_t: a negative value wraps around
ToUint64(n) ==
  IF n >= 0 THEN <<0, 0, 0, n>> ELSE <<Limb - 1, Limb - 1, Limb - 1, Limb + n>>

\* a < b for two unsigned 64-bit values
Uint64Less(a, b) == \E i \in 1..4 : a[i] < b[i] /\ \A j \in 1..(i - 1) : a[j] = b[j]

\* std::string::compare: negative, zero or positive as a sorts before, with
\* or after b, byte by byte as unsigned values, a proper prefix first
RECURSIVE compare(_, _)
compare(a, b) ==
  IF a = <<>> /\ b = <<>> THEN 0
  ELSE IF a = <<>> THEN -1
  ELSE IF b = <<>> THEN 1
  ELSE IF Head(a) # Head(b) THEN Head(a) - Head(b)
  ELSE compare(Tail(a), Tail(b))

\* the metrics a store reports for a region
RegionMetrics(row_count, min_key, max_key) ==
  [row_count |-> row_count, min_key |-> min_key, max_key |-> max_key]

\* what the aggregation starts from
MinKeySeed == Bytes(10, 0)
MaxKeySeed == Bytes(10, 255)

MinKeyNext(min_key, region_min_key) ==
  IF min_key = <<>> THEN region_min_key
  ELSE IF compare(min_key, region_min_key) > 0 THEN region_min_key
  ELSE min_key

MaxKeyNext(max_key, region_max_key) ==
  IF max_key = <<>> THEN region_max_key
  ELSE IF compare(max_key, region_max_key) < 0 THEN region_max_key
  ELSE max_key

\* the loop over the partitions i, i + 1, ...: a partition whose region is
\* not in the region store, or has no metrics, is passed over
RECURSIVE CalculateTableMetricsLoop(_, _, _)
CalculateTableMetricsLoop(partitions, i, acc) ==
  IF i > Len(partitions) THEN acc
  ELSE LET region_id == partitions[i].region_id IN
       IF ~Exists(region_map_, region_id) \/ ~Exists(region_metrics_, region_id)
         THEN CalculateTableMetricsLoop(partitions, i + 1, acc)
       ELSE LET region_metrics == region_metrics_[region_id] IN
            CalculateTableMetricsLoop(partitions, i + 1,
              [row_count |-> acc.row_count + region_metrics.row_count,
               min_key |-> MinKeyNext(acc.min_key, region_metrics.min_key),
               max_key |-> MaxKeyNext(acc.max_key, region_metrics.max_key)])

\* CalculateTableMetricsPartCount counting the partitions whose region exists
CalculateTableMetricsPartCount_Found(table_internal) ==
  Cardinality({i \in 1..Len(table_internal.partitions) :
                 Exists(region_map_, table_internal.partitions[i].region_id)})

CalculateTableMetricsPartCount(table_internal) == Len(table_internal.partitions)

\* CalculateTableMetricsSingle(table_id, table_metrics): the value returned,
\* of type uint64_t, and table_metrics as the call leaves it
CalculateTableMetricsSingle(table_id, table_metrics) ==
  IF ~Exists(table_map_, table_id)
    THEN [ret |-> ToUint64(-1), metrics |-> table_metrics]
  ELSE LET table_internal == table_map_[table_id]
           acc == CalculateTableMetricsLoop(table_internal.partitions, 1,
                    [row_count |-> 0, min_key |-> MinKeySeed, max_key |-> MaxKeySeed])
       IN [ret |-> ToUint64(0),
           metrics |-> [rows_count |-> acc.row_count, min_key |-> acc.min_key,
                        max_key |-> acc.max_key,
                        part_count |-> CalculateTableMetricsPartCount(table_internal)]]

CalculateIndexMetricsLoop(partitions, i, acc) == CalculateTableMetricsLoop(partitions, i, acc)

CalculateIndexMetricsSingle(index_id, index_metrics) ==
  IF ~Exists(index_map_, index_id)
    THEN [ret |-> ToUint64(-1), metrics |-> index_metrics]
  ELSE LET index_internal == index_map_[index_id]
           acc == CalculateIndexMetricsLoop(index_internal.partitions, 1,
                    [row_count |-> 0, min_key |-> MinKeySeed, max_key |-> MaxKeySeed])
       IN [ret |-> ToUint64(0),
           metrics |-> [rows_count |-> acc.row_count, min_key |-> acc.min_key,
                        max_key |-> acc.max_key,
                        part_count |-> Len(index_internal.partitions)]]

\* the test "CalculateTableMetricsSingle(...) < 0" of the callers
CalculateFailed(returned) == Uint64Less(returned, ToUint64(0))

-----------------------------------------------------------------------------
(* A thread starts and finishes a read *)

\* the other threads that run a GetTableMetrics call for the table
OthersOn(p, table_id) ==
  {q \in Procs \ {p} : mcall[q].op = "GetTableMetrics" /\ mcall[q].id = table_id}

\* the read returns an error: nothing but its outcome is recorded
MetricsReturnAtOnce(p, c, status) ==
  /\ mpc' = [mpc EXCEPT ![p] = "returned"]
  /\ mcall' = [mcall EXCEPT ![p] = NoMetricsCall]
  /\ mret' = [mret EXCEPT ![p] = MetricsRet(c, status, NoMetrics, FALSE, <<>>)]

\* the read returns OK with value
MetricsReturn(p, c, value, cached, entries) ==
  /\ mpc' = [mpc EXCEPT ![p] = "returned"]
  /\ mcall' = [mcall EXCEPT ![p] = NoMetricsCall]
  /\ mret' = [mret EXCEPT ![p] = MetricsRet(c, OK, value, cached, entries)]

\* the caller has looked at the outcome
MetricsForget(p) ==
  /\ mpc[p] = "returned"
  /\ mpc' = [mpc EXCEPT ![p] = "idle"]
  /\ mret' = [mret EXCEPT ![p] = NoMetricsRet]
  /\ UNCHANGED <<vars_meta, bench_, region_metrics_, table_metrics_map_, index_metrics_map_,
                 coordinator_bvar_metrics_table_, coordinator_bvar_metrics_index_,
                 mcall, sweep, nreads, nupdates, nsweeps, admitted, last, refreshed>>

-----------------------------------------------------------------------------
(* GetTableMetrics *)

ETABLE_METRICS_FAILED == "ETABLE_METRICS_FAILED"
EINDEX_METRICS_FAILED == "EINDEX_METRICS_FAILED"

\* the rest of the metrics state, for the actions that change the caches
metrics_rest == <<region_metrics_, coordinator_bvar_metrics_table_,
                  coordinator_bvar_metrics_index_, sweep, nupdates, nsweeps>>

\* History: what a returning GetTableMetrics call leaves for the next one
LastOf(c, value) ==
  [value |-> value, regions_same |-> c.own_regions_same, undisturbed |-> c.own_undisturbed]

\* GetTableMetricsInsert storing an entry without the metrics
GetTableMetricsInsert_Unset(map, table_id, table_metrics_internal) ==
  Put(map, table_id, MetricsInternal(table_id, NoMetrics))

\* the entry of a table whose metrics were just computed goes into the cache
GetTableMetricsInsert(map, table_id, table_metrics_internal) ==
  Put(map, table_id, table_metrics_internal)

\* the checks of the arguments, of the schema and of the table
GetTableMetricsBegin(p, schema_id, table_id, entity_id) ==
  LET known == Exists(last, table_id)
      alone == OthersOn(p, table_id) = {}
      plain == MetricsCall("GetTableMetrics", schema_id, table_id)
      c == [plain EXCEPT
              !.prev_known = known,
              !.prev = IF known THEN last[table_id].value ELSE NoMetrics,
              !.regions_same = known /\ last[table_id].regions_same,
              !.undisturbed = known /\ last[table_id].undisturbed /\ alone,
              !.own_regions_same = TRUE,
              !.own_undisturbed = alone]
  IN
  /\ mpc[p] = "idle"
  /\ IF entity_id # 0
       THEN MetricsReturnAtOnce(p, plain, EILLEGAL_PARAMTETERS) /\ UNCHANGED <<last, nreads>>
     ELSE IF ~ValidateSchema(schema_id)
       THEN MetricsReturnAtOnce(p, plain, ESCHEMA_NOT_FOUND) /\ UNCHANGED <<last, nreads>>
     ELSE IF ~Exists(table_map_, table_id)
       THEN MetricsReturnAtOnce(p, plain, ETABLE_NOT_FOUND) /\ UNCHANGED <<last, nreads>>
     ELSE /\ nreads' = nreads + 1
          /\ mpc' = [mpc EXCEPT ![p] = "GetTableMetricsGet"]
          /\ mcall' = [q \in Procs |->
                         IF q = p THEN c
                         ELSE IF q \in OthersOn(p, table_id)
                           THEN [mcall[q] EXCEPT !.undisturbed = FALSE,
                                                 !.own_undisturbed = FALSE]
                         ELSE mcall[q]]
          /\ last' = IF known THEN [last EXCEPT ![table_id].undisturbed = FALSE] ELSE last
          /\ UNCHANGED mret
  /\ UNCHANGED <<vars_meta, bench_, metrics_rest, table_metrics_map_, index_metrics_map_,
                 admitted, refreshed>>

\* the lookup in the cache: an entry found is returned
GetTableMetricsGet(p) ==
  LET c == mcall[p] IN
  /\ mpc[p] = "GetTableMetricsGet"
  /\ IF Exists(table_metrics_map_, c.id)
       THEN LET value == table_metrics_map_[c.id].metrics IN
            /\ MetricsReturn(p, c, value, TRUE, <<>>)
            /\ last' = Put(last, c.id, LastOf(c, value))
       ELSE /\ mpc' = [mpc EXCEPT ![p] = "GetTableMetricsCalculate"]
            /\ UNCHANGED <<mcall, mret, last>>
  /\ UNCHANGED <<vars_meta, bench_, metrics_rest, table_metrics_map_, index_metrics_map_,
                 nreads, admitted, refreshed>>

\* no entry: the metrics are computed from the regions
GetTableMetricsCalculate(p) ==
  LET c == mcall[p]
      r == CalculateTableMetricsSingle(c.id, c.internal.metrics)
      c1 == [c EXCEPT !.gone = ~Exists(table_map_, c.id),
                      !.internal = MetricsInternal(c.id, r.metrics)]
  IN
  /\ mpc[p] = "GetTableMetricsCalculate"
  /\ IF CalculateFailed(r.ret)
       THEN MetricsReturnAtOnce(p, c1, ETABLE_METRICS_FAILED)
       ELSE /\ mpc' = [mpc EXCEPT ![p] = "GetTableMetricsPut"]
            /\ mcall' = [mcall EXCEPT ![p] = c1]
            /\ UNCHANGED mret
  /\ UNCHANGED <<vars_meta, bench_, metrics_rest, table_metrics_map_, index_metrics_map_,
                 nreads, admitted, last, refreshed>>

\* the computed entry is inserted and returned
GetTableMetricsPut(p) ==
  LET c == mcall[p] IN
  /\ mpc[p] = "GetTableMetricsPut"
  /\ table_metrics_map_' = GetTableMetricsInsert(table_metrics_map_, c.id, c.internal)
  /\ admitted' = [admitted EXCEPT !.table = @ \cup {c.id}]
  /\ MetricsReturn(p, c, c.internal.metrics, FALSE, <<>>)
  /\ last' = Put(last, c.id, LastOf(c, c.internal.metrics))
  /\ UNCHANGED <<vars_meta, bench_, metrics_rest, index_metrics_map_, nreads, refreshed>>

-----------------------------------------------------------------------------
(* GetIndexMetrics *)

GetIndexMetricsBegin(p, schema_id, index_id, entity_id) ==
  LET c == MetricsCall("GetIndexMetrics", schema_id, index_id) IN
  /\ mpc[p] = "idle"
  /\ IF entity_id # 0
       THEN MetricsReturnAtOnce(p, c, EILLEGAL_PARAMTETERS) /\ UNCHANGED nreads
     ELSE IF ~ValidateSchema(schema_id)
       THEN MetricsReturnAtOnce(p, c, ESCHEMA_NOT_FOUND) /\ UNCHANGED nreads
     ELSE IF ~Exists(index_map_, index_id)
       THEN MetricsReturnAtOnce(p, c, EINDEX_NOT_FOUND) /\ UNCHANGED nreads
     ELSE /\ nreads' = nreads + 1
          /\ mpc' = [mpc EXCEPT ![p] = "GetIndexMetricsGet"]
          /\ mcall' = [mcall EXCEPT ![p] = c]
          /\ UNCHANGED mret
  /\ UNCHANGED <<vars_meta, bench_, metrics_rest, table_metrics_map_, index_metrics_map_,
                 admitted, last, refreshed>>

GetIndexMetricsGet(p) ==
  LET c == mcall[p] IN
  /\ mpc[p] = "GetIndexMetricsGet"
  /\ IF Exists(index_metrics_map_, c.id)
       THEN MetricsReturn(p, c, index_metrics_map_[c.id].metrics, TRUE, <<>>)
       ELSE /\ mpc' = [mpc EXCEPT ![p] = "GetIndexMetricsCalculate"]
            /\ UNCHANGED <<mcall, mret>>
  /\ UNCHANGED <<vars_meta, bench_, metrics_rest, table_metrics_map_, index_metrics_map_,
                 nreads, admitted, last, refreshed>>

GetIndexMetricsCalculate(p) ==
  LET c == mcall[p]
      r == CalculateIndexMetricsSingle(c.id, c.internal.metrics)
      c1 == [c EXCEPT !.gone = ~Exists(index_map_, c.id),
                      !.internal = MetricsInternal(c.id, r.metrics)]
  IN
  /\ mpc[p] = "GetIndexMetricsCalculate"
  /\ IF CalculateFailed(r.ret)
       THEN MetricsReturnAtOnce(p, c1, EINDEX_METRICS_FAILED)
       ELSE /\ mpc' = [mpc EXCEPT ![p] = "GetIndexMetricsPut"]
            /\ mcall' = [mcall EXCEPT ![p] = c1]
            /\ UNCHANGED mret
  /\ UNCHANGED <<vars_meta, bench_, metrics_rest, table_metrics_map_, index_metrics_map_,
                 nreads, admitted, last, refreshed>>

GetIndexMetricsPut(p) ==
  LET c == mcall[p] IN
  /\ mpc[p] = "GetIndexMetricsPut"
  /\ index_metrics_map_' = Put(index_metrics_map_, c.id, c.internal)
  /\ admitted' = [admitted EXCEPT !.index = @ \cup {c.id}]
  /\ MetricsReturn(p, c, c.internal.metrics, FALSE, <<>>)
  /\ UNCHANGED <<vars_meta, bench_, metrics_rest, table_metrics_map_, nreads, last, refreshed>>

-----------------------------------------------------------------------------
(* The periodic sweep: CalculateTableMetrics, CalculateIndexMetrics *)

\* DingoSafeMap::PutIfExists: the value of a key is replaced, a key that is
\* not in the map is not added
PutIfExists(m, k, v) == IF k \in DOMAIN m THEN Put(m, k, v) ELSE m

\* the observability counters of a table or an index
UpdateTableBvar(bvar, table_id, rows_count, part_count) ==
  Put(bvar, table_id, [rows_count |-> rows_count, part_count |-> part_count])

DeleteTableBvar(bvar, table_id) == Erase(bvar, table_id)

UpdateIndexBvar(bvar, index_id, rows_count, part_count) ==
  Put(bvar, index_id, [rows_count |-> rows_count, part_count |-> part_count])

DeleteIndexBvar(bvar, index_id) == Erase(bvar, index_id)

\* History: a sweep has written the cache entry of the table
SweepDisturbs(table_id) ==
  /\ last' = IF Exists(last, table_id)
               THEN [last EXCEPT ![table_id].undisturbed = FALSE] ELSE last
  /\ mcall' = [q \in Procs |->
                 IF mcall[q].op = "GetTableMetrics" /\ mcall[q].id = table_id
                   THEN [mcall[q] EXCEPT !.undisturbed = FALSE, !.own_undisturbed = FALSE]
                 ELSE mcall[q]]

\* the sweep copies the cache and will visit every id of the copy
CalculateTableMetricsBegin ==
  /\ sweep.kind = "none"
  /\ nsweeps' = nsweeps + 1
  /\ sweep' = [kind |-> "table", temp |-> table_metrics_map_,
               todo |-> DOMAIN table_metrics_map_, clean |-> TRUE]
  /\ UNCHANGED <<vars_meta, bench_, region_metrics_, table_metrics_map_, index_metrics_map_,
                 coordinator_bvar_metrics_table_, coordinator_bvar_metrics_index_,
                 mpc, mcall, mret, nreads, nupdates, admitted, last, refreshed>>

\* the sweep has visited table_id
CalculateTableMetricsVisited(table_id) == sweep' = [sweep EXCEPT !.todo = @ \ {table_id}]

\* the sweep has visited every id of its copy and returns
CalculateMetricsEnd ==
  /\ sweep.kind # "none"
  /\ sweep.todo = {}
  /\ sweep' = NoSweep
  /\ UNCHANGED <<vars_meta, bench_, region_metrics_, table_metrics_map_, index_metrics_map_,
                 coordinator_bvar_metrics_table_, coordinator_bvar_metrics_index_,
                 mpc, mcall, mret, nreads, nupdates, nsweeps, admitted, last, refreshed>>

\* the recomputed entry replaces the cached one
CalculateTableMetricsUpdate(map, table_id, table_metrics_internal) ==
  PutIfExists(map, table_id, table_metrics_internal)

\* CalculateTableMetricsStep visiting any table of the store and adding it
CalculateTableMetricsStep_AllTables(table_id) ==
  LET r == CalculateTableMetricsSingle(table_id, NoMetrics) IN
  /\ sweep.kind = "table"
  /\ Exists(table_map_, table_id)
  /\ table_metrics_map_' = Put(table_metrics_map_, table_id,
                               MetricsInternal(table_id, r.metrics))
  /\ coordinator_bvar_metrics_table_' =
       UpdateTableBvar(coordinator_bvar_metrics_table_, table_id,
                       r.metrics.rows_count, r.metrics.part_count)
  /\ SweepDisturbs(table_id)
  /\ CalculateTableMetricsVisited(table_id)
  /\ UNCHANGED <<vars_meta, bench_, region_metrics_, index_metrics_map_,
                 coordinator_bvar_metrics_index_, mpc, mret, nreads, nupdates,
                 nsweeps, admitted, refreshed>>

\* one turn of the loop of the sweep, for an id of the copy
CalculateTableMetricsStep(table_id) ==
  LET r == CalculateTableMetricsSingle(table_id, NoMetrics) IN
  /\ sweep.kind = "table"
  /\ table_id \in sweep.todo
  /\ IF CalculateFailed(r.ret)
       THEN /\ table_metrics_map_' = Erase(table_metrics_map_, table_id)
            /\ coordinator_bvar_metrics_table_' =
                 DeleteTableBvar(coordinator_bvar_metrics_table_, table_id)
            /\ UNCHANGED refreshed
       ELSE /\ table_metrics_map_' =
                 CalculateTableMetricsUpdate(table_metrics_map_, table_id,
                   [sweep.temp[table_id] EXCEPT !.metrics = r.metrics])
            /\ coordinator_bvar_metrics_table_' =
                 UpdateTableBvar(coordinator_bvar_metrics_table_, table_id,
                                 r.metrics.rows_count, r.metrics.part_count)
            /\ refreshed' = IF sweep.clean THEN refreshed \cup {table_id} ELSE refreshed
  /\ SweepDisturbs(table_id)
  /\ CalculateTableMetricsVisited(table_id)
  /\ UNCHANGED <<vars_meta, bench_, region_metrics_, index_metrics_map_,
                 coordinator_bvar_metrics_index_, mpc, mret, nreads, nupdates,
                 nsweeps, admitted, bench_>>

CalculateIndexMetricsBegin ==
  /\ sweep.kind = "none"
  /\ nsweeps' = nsweeps + 1
  /\ sweep' = [kind |-> "index", temp |-> index_metrics_map_,
               todo |-> DOMAIN index_metrics_map_, clean |-> TRUE]
  /\ UNCHANGED <<vars_meta, bench_, region_metrics_, table_metrics_map_, index_metrics_map_,
                 coordinator_bvar_metrics_table_, coordinator_bvar_metrics_index_,
                 mpc, mcall, mret, nreads, nupdates, admitted, last, refreshed>>

CalculateIndexMetricsStep(index_id) ==
  LET r == CalculateIndexMetricsSingle(index_id, NoMetrics) IN
  /\ sweep.kind = "index"
  /\ index_id \in sweep.todo
  /\ IF CalculateFailed(r.ret)
       THEN /\ index_metrics_map_' = Erase(index_metrics_map_, index_id)
            /\ coordinator_bvar_metrics_index_' =
                 DeleteIndexBvar(coordinator_bvar_metrics_index_, index_id)
       ELSE /\ index_metrics_map_' =
                 PutIfExists(index_metrics_map_, index_id,
                             [sweep.temp[index_id] EXCEPT !.metrics = r.metrics])
            /\ coordinator_bvar_metrics_index_' =
                 UpdateIndexBvar(coordinator_bvar_metrics_index_, index_id,
                                 r.metrics.rows_count, r.metrics.part_count)
  /\ CalculateTableMetricsVisited(index_id)
  /\ UNCHANGED <<vars_meta, bench_, region_metrics_, table_metrics_map_,
                 coordinator_bvar_metrics_table_, mpc, mcall, mret, nreads, nupdates,
                 nsweeps, admitted, last, refreshed>>

-----------------------------------------------------------------------------
(* The regions: the stores report metrics, the region subsystem removes a   *)
(* region                                                                   *)

\* the bytes a, c, f, z
Keys == <<97, 99, 102, 122>>

\* the keys of the region of the range i: (a,c), (c,f), (f,z), ...
RangeMinKey(i) == <<Keys[i + 1]>>
RangeMaxKey(i) == <<Keys[i + 2]>>

\* a store reports the metrics of a region
UpdateRegionMetrics(region_id, row_count) ==
  LET region == region_map_[region_id]
      region_metrics == RegionMetrics(row_count, RangeMinKey(region.range),
                                      RangeMaxKey(region.range))
  IN
  /\ Exists(region_map_, region_id)
  /\ IF Exists(region_metrics_, region_id)
       THEN region_metrics_[region_id] # region_metrics ELSE TRUE
  /\ region_metrics_' = Put(region_metrics_, region_id, region_metrics)
  /\ nupdates' = nupdates + 1
  /\ RegionsChanged
  /\ UNCHANGED <<vars_meta, bench_, table_metrics_map_, index_metrics_map_,
                 coordinator_bvar_metrics_table_, coordinator_bvar_metrics_index_,
                 mpc, mret, nreads, nsweeps, admitted, bench_>>

\* the region subsystem changes a region: its peers and its leader after an
\* election or a change of membership, its range after a split
UpdateRegion(region_id, peers, leader_store_id, range) ==
  LET region == [region_map_[region_id] EXCEPT !.peers = peers,
                                               !.leader_store_id = leader_store_id,
                                               !.range = range]
  IN
  /\ Exists(region_map_, region_id)
  /\ region_map_[region_id] # region
  /\ region_map_' = Put(region_map_, region_id, region)
  /\ nupdates' = nupdates + 1
  /\ RegionsChanged
  /\ UNCHANGED <<schema_map_, table_map_, index_map_, id_epoch_map_, names,
                 id_epoch_map_safe_temp_, log, pc, call, ret, ncalls, applied_creates,
                 region_metrics_, table_metrics_map_, index_metrics_map_,
                 coordinator_bvar_metrics_table_, coordinator_bvar_metrics_index_,
                 mpc, mret, nreads, nsweeps, admitted, bench_>>

\* the region subsystem removes a region from the region store
DropRegionPermanently(region_id) ==
  /\ Exists(region_map_, region_id)
  /\ region_map_' = Erase(region_map_, region_id)
  /\ nupdates' = nupdates + 1
  /\ RegionsChanged
  /\ UNCHANGED <<schema_map_, table_map_, index_map_, id_epoch_map_, names,
                 id_epoch_map_safe_temp_, log, pc, call, ret, ncalls, applied_creates,
                 region_metrics_, table_metrics_map_, index_metrics_map_,
                 coordinator_bvar_metrics_table_, coordinator_bvar_metrics_index_,
                 mpc, mret, nreads, nsweeps, admitted, bench_>>

-----------------------------------------------------------------------------
(* GetTableRange, GetIndexRange *)

\* pb::common::PeerRole
VOTER == "VOTER"
LEARNER == "LEARNER"

\* a peer of a region, and a location that is not set
Peer(store_id, role, server_location) ==
  [store_id |-> store_id, role |-> role, server_location |-> server_location]

NoLocation == <<>>

\* GetPresentId(key): the present value of a counter of the leader
GetPresentId(key) == id_epoch_map_safe_temp_[key]

\* a range-distribution entry as add_range_distribution() makes it
NoRangeDistribution ==
  [id |-> 0, parent_id |-> 0, has_range |-> FALSE, range |-> 0, leader |-> NoLocation,
   voters |-> <<>>, learners |-> <<>>, regionmap_epoch |-> 0, storemap_epoch |-> 0]

\* GetTableRangePeer taking the first peer for the leader, whatever its store
GetTableRangePeer_FirstLeads(range_distribution, part_peer, leader_store_id) ==
  [range_distribution EXCEPT
     !.leader = IF @ = NoLocation THEN part_peer.server_location ELSE @,
     !.voters = IF part_peer.role = VOTER THEN Append(@, part_peer.server_location) ELSE @,
     !.learners = IF part_peer.role = LEARNER THEN Append(@, part_peer.server_location)
                  ELSE @]

\* one turn of the loop over the peers of a region
GetTableRangePeer(range_distribution, part_peer, leader_store_id) ==
  [range_distribution EXCEPT
     !.leader = IF part_peer.store_id = leader_store_id THEN part_peer.server_location
                ELSE @,
     !.voters = IF part_peer.role = VOTER THEN Append(@, part_peer.server_location) ELSE @,
     !.learners = IF part_peer.role = LEARNER THEN Append(@, part_peer.server_location)
                  ELSE @]

\* the loop over the peers j, j + 1, ... of a region
RECURSIVE GetTableRangePeers(_, _, _)
GetTableRangePeers(range_distribution, part_region, j) ==
  IF j > Len(part_region.peers) THEN range_distribution
  ELSE GetTableRangePeers(
         GetTableRangePeer(range_distribution, part_region.peers[j],
                           part_region.leader_store_id),
         part_region, j + 1)

\* the entry of a partition whose region is in the region store
GetTableRangeFill(range_distribution, part_region) ==
  [GetTableRangePeers([range_distribution EXCEPT !.has_range = TRUE,
                                                 !.range = part_region.range],
                      part_region, 1)
     EXCEPT !.regionmap_epoch = GetPresentId(EPOCH_REGION),
            !.storemap_epoch = GetPresentId(EPOCH_STORE)]

\* the loop over the partitions i, i + 1, ...: the entry is added, and its id
\* set, before the region is looked up
RECURSIVE GetTableRangeLoop(_, _, _, _)
GetTableRangeLoop(table_id, partitions, i, range_distributions) ==
  IF i > Len(partitions) THEN range_distributions
  ELSE LET region_id == partitions[i].region_id
           range_distribution ==
             [NoRangeDistribution EXCEPT !.id = region_id, !.parent_id = table_id]
       IN GetTableRangeLoop(table_id, partitions, i + 1,
            Append(range_distributions,
                   IF ~Exists(region_map_, region_id) THEN range_distribution
                   ELSE GetTableRangeFill(range_distribution, region_map_[region_id])))

GetTableRange(p, schema_id, table_id) ==
  LET c == MetricsCall("GetTableRange", schema_id, table_id) IN
  /\ mpc[p] = "idle"
  /\ IF schema_id < 0 THEN MetricsReturnAtOnce(p, c, EILLEGAL_PARAMTETERS)
     ELSE IF ~ValidateSchema(schema_id) THEN MetricsReturnAtOnce(p, c, ESCHEMA_NOT_FOUND)
     ELSE IF ~Exists(table_map_, table_id) THEN MetricsReturnAtOnce(p, c, ETABLE_NOT_FOUND)
     ELSE MetricsReturn(p, c, NoMetrics, FALSE,
            GetTableRangeLoop(table_id, table_map_[table_id].partitions, 1, <<>>))
  /\ UNCHANGED <<vars_meta, bench_, metrics_rest, table_metrics_map_, index_metrics_map_,
                 nreads, admitted, last, refreshed>>

GetIndexRangeLoop(index_id, partitions, i, range_distributions) ==
  GetTableRangeLoop(index_id, partitions, i, range_distributions)

GetIndexRange(p, schema_id, index_id) ==
  LET c == MetricsCall("GetIndexRange", schema_id, index_id) IN
  /\ mpc[p] = "idle"
  /\ IF schema_id < 0 THEN MetricsReturnAtOnce(p, c, EILLEGAL_PARAMTETERS)
     ELSE IF ~ValidateSchema(schema_id) THEN MetricsReturnAtOnce(p, c, ESCHEMA_NOT_FOUND)
     ELSE IF ~Exists(index_map_, index_id) THEN MetricsReturnAtOnce(p, c, EINDEX_NOT_FOUND)
     ELSE MetricsReturn(p, c, NoMetrics, FALSE,
            GetIndexRangeLoop(index_id, index_map_[index_id].partitions, 1, <<>>))
  /\ UNCHANGED <<vars_meta, bench_, metrics_rest, table_metrics_map_, index_metrics_map_,
                 nreads, admitted, last, refreshed>>

-----------------------------------------------------------------------------
(* Arguments of the calls *)

\* the id the generators hand out first
FirstId == COORDINATOR_ID_OF_MAP_MIN + 1

UserSchemas == {s \in DOMAIN schema_map_ : s > COORDINATOR_ID_OF_MAP_MIN}

SchemaIdArgs == {ROOT_SCHEMA, META_SCHEMA, FirstId} \cup UserSchemas
ParentIdArgs == {ROOT_SCHEMA, DINGO_SCHEMA}
SchemaNameArgs == {EmptyName} \cup Names
NewIdArgs == {0, FirstId}
TableIdArgs == {FirstId} \cup DOMAIN table_map_
IndexIdArgs == {FirstId} \cup DOMAIN index_map_

\* the range at which CreateRegion fails (none when it is the number of ranges)
FailureArgs == 0..MaxRanges
\* the positions of the DropRegion requests that fail
DropFailureArgs == SUBSET (1..(MaxRanges - 1))

-----------------------------------------------------------------------------
(* The leader serving its clients: a call is taken by the first free        *)
(* thread, and the caller looks at an outcome before anything else happens  *)

Quiet == \A q \in Procs : pc[q] # "returned"

FirstFree(p) == pc[p] = "idle" /\ \A q \in 1..(p - 1) : pc[q] # "idle"

Starts(p) == Quiet /\ ncalls < MaxCalls /\ FirstFree(p)

Next ==
  \/ \E p \in Procs, parent_schema_id \in ParentIdArgs, schema_name \in SchemaNameArgs :
       Starts(p) /\ CreateSchemaBegin(p, parent_schema_id, schema_name)
  \/ \E p \in Procs : Quiet /\ CreateSchemaPut(p)
  \/ \E p \in Procs, schema_id \in SchemaIdArgs :
       Starts(p) /\ DropSchema(p, ROOT_SCHEMA, schema_id)
  \/ \E p \in Procs, schema_id \in SchemaIdArgs, table_definition \in TableDefinitions,
        new_table_id \in NewIdArgs, auto_increment_ok \in BOOLEAN :
       Starts(p) /\ CreateTableBegin(p, schema_id, table_definition, new_table_id,
                                     auto_increment_ok)
  \/ \E p \in Procs : Quiet /\ CreateTablePut(p)
  \/ \E p \in Procs, created \in FailureArgs, failed \in DropFailureArgs :
       Quiet /\ CreateTableRegions(p, created, failed)
  \/ \E p \in Procs, schema_id \in SchemaIdArgs, table_id \in TableIdArgs,
        failed \in DropFailureArgs :
       Starts(p) /\ DropTable(p, schema_id, table_id, failed)
  \/ \E p \in Procs, schema_id \in SchemaIdArgs, index_definition \in IndexDefinitions,
        new_index_id \in NewIdArgs, auto_increment_ok \in BOOLEAN :
       Starts(p) /\ CreateIndexBegin(p, schema_id, index_definition, new_index_id,
                                     auto_increment_ok)
  \/ \E p \in Procs : Quiet /\ CreateIndexPut(p)
  \/ \E p \in Procs, created \in FailureArgs, failed \in DropFailureArgs :
       Quiet /\ CreateIndexRegions(p, created, failed)
  \/ \E p \in Procs, schema_id \in SchemaIdArgs, index_id \in IndexIdArgs,
        failed \in DropFailureArgs :
       Starts(p) /\ DropIndex(p, schema_id, index_id, failed)
  \/ Quiet /\ ApplyMetaIncrement
  \/ \E p \in Procs : Forget(p)

Spec == Init /\ [][Next]_vars

-----------------------------------------------------------------------------
(* One client: a single thread creates and drops tables, one call after    *)
(* the other; the outcome of a call stays until the next call returns      *)

Client == CHOOSE p \in Procs : \A q \in Procs : p <= q

SeqSchemaIdArgs == {META_SCHEMA, DINGO_SCHEMA}

NextSeq ==
  \/ \E schema_id \in SeqSchemaIdArgs, table_definition \in LegalTableDefinitions,
        new_table_id \in NewIdArgs, auto_increment_ok \in BOOLEAN :
       ncalls < MaxSeqCalls /\ CreateTableBegin(Client, schema_id, table_definition,
                                                new_table_id, auto_increment_ok)
  \/ CreateTablePut(Client)
  \/ \E created \in FailureArgs, failed \in DropFailureArgs :
       CreateTableRegions(Client, created, failed)
  \/ \E schema_id \in SeqSchemaIdArgs, table_id \in TableIdArgs, failed \in DropFailureArgs :
       ncalls < MaxSeqCalls /\ DropTable(Client, schema_id, table_id, failed)
  \/ ApplyMetaIncrement

SpecSeq == Init /\ [][NextSeq]_vars

-----------------------------------------------------------------------------
(* A race: every thread runs one create call, and the outcomes stay *)

RaceSchemaIdArgs == {META_SCHEMA}

NextRace ==
  \/ \E p \in Procs, schema_name \in Names :
       pc[p] = "idle" /\ CreateSchemaBegin(p, ROOT_SCHEMA, schema_name)
  \/ \E p \in Procs : CreateSchemaPut(p)
  \/ \E p \in Procs, schema_id \in RaceSchemaIdArgs,
        table_definition \in LegalTableDefinitions, auto_increment_ok \in BOOLEAN :
       pc[p] = "idle" /\ CreateTableBegin(p, schema_id, table_definition, 0,
                                          auto_increment_ok)
  \/ \E p \in Procs : CreateTablePut(p)
  \/ \E p \in Procs, created \in FailureArgs, failed \in DropFailureArgs :
       CreateTableRegions(p, created, failed)
  \/ \E p \in Procs, schema_id \in RaceSchemaIdArgs,
        index_definition \in LegalIndexDefinitions, auto_increment_ok \in BOOLEAN :
       pc[p] = "idle" /\ CreateIndexBegin(p, schema_id, index_definition, 0,
                                          auto_increment_ok)
  \/ \E p \in Procs : CreateIndexPut(p)
  \/ \E p \in Procs, created \in FailureArgs, failed \in DropFailureArgs :
       CreateIndexRegions(p, created, failed)

SpecRace == Init /\ [][NextRace]_vars

-----------------------------------------------------------------------------
(* The metrics: one client creates a table or an index and drops it, the    *)
(* threads read metrics and ranges, the sweep runs, the regions change      *)

\* the row counts a store reports
RowCountArgs == {19, 20}

\* the definitions of the tables and indexes: as many ranges as can be
MetricsTableDefinitions == {d \in LegalTableDefinitions : d.nranges = MaxRanges}
MetricsIndexDefinitions == {d \in LegalIndexDefinitions : d.nranges = MaxRanges}

MetricsSchemaIdArgs == {META_SCHEMA}

MetricsQuiet == \A q \in Procs : mpc[q] # "returned"

MetricsStarts(p) ==
  /\ Quiet /\ MetricsQuiet
  /\ nreads < MaxReads
  /\ mpc[p] = "idle" /\ \A q \in 1..(p - 1) : mpc[q] # "idle"

MetaStarts == Quiet /\ MetricsQuiet /\ ncalls < MaxMetaCalls /\ pc[Client] = "idle"

\* the client creates one table or one index, its first call
CreateStarts == MetaStarts /\ ncalls = 0

Steps == Quiet /\ MetricsQuiet

NextMetrics ==
  \/ \E table_definition \in MetricsTableDefinitions :
       CreateStarts /\ CreateTableBegin(Client, META_SCHEMA, table_definition, 0, TRUE)
  \/ Steps /\ CreateTablePut(Client)
  \/ Steps /\ CreateTableRegions(Client, MaxRanges, {})
  \/ \E table_id \in DOMAIN table_map_ :
       MetaStarts /\ DropTable(Client, META_SCHEMA, table_id, {})
  \/ \E index_definition \in MetricsIndexDefinitions :
       CreateStarts /\ CreateIndexBegin(Client, META_SCHEMA, index_definition, 0, TRUE)
  \/ Steps /\ CreateIndexPut(Client)
  \/ Steps /\ CreateIndexRegions(Client, MaxRanges, {})
  \/ \E index_id \in DOMAIN index_map_ :
       MetaStarts /\ DropIndex(Client, META_SCHEMA, index_id, {})
  \/ Steps /\ ApplyMetaIncrement
  \/ Forget(Client)
  \/ \E p \in Procs, schema_id \in MetricsSchemaIdArgs, table_id \in TableIdArgs :
       MetricsStarts(p) /\ GetTableMetricsBegin(p, schema_id, table_id, 0)
  \/ \E p \in Procs : Steps /\ GetTableMetricsGet(p)
  \/ \E p \in Procs : Steps /\ GetTableMetricsCalculate(p)
  \/ \E p \in Procs : Steps /\ GetTableMetricsPut(p)
  \/ \E p \in Procs, schema_id \in MetricsSchemaIdArgs, index_id \in IndexIdArgs :
       MetricsStarts(p) /\ GetIndexMetricsBegin(p, schema_id, index_id, 0)
  \/ \E p \in Procs : Steps /\ GetIndexMetricsGet(p)
  \/ \E p \in Procs : Steps /\ GetIndexMetricsCalculate(p)
  \/ \E p \in Procs : Steps /\ GetIndexMetricsPut(p)
  \/ \E p \in Procs, schema_id \in MetricsSchemaIdArgs, table_id \in TableIdArgs :
       MetricsStarts(p) /\ GetTableRange(p, schema_id, table_id)
  \/ \E p \in Procs, schema_id \in MetricsSchemaIdArgs, index_id \in IndexIdArgs :
       MetricsStarts(p) /\ GetIndexRange(p, schema_id, index_id)
  \/ \E p \in Procs : MetricsForget(p)
  \/ Steps /\ nsweeps < MaxSweeps /\ CalculateTableMetricsBegin
  \/ \E table_id \in TableIdArgs \cup sweep.todo : Steps /\ CalculateTableMetricsStep(table_id)
  \/ Steps /\ nsweeps < MaxSweeps /\ CalculateIndexMetricsBegin
  \/ \E index_id \in sweep.todo : Steps /\ CalculateIndexMetricsStep(index_id)
  \/ Steps /\ CalculateMetricsEnd
  \/ \E region_id \in DOMAIN region_map_, row_count \in RowCountArgs :
       Steps /\ nupdates < MaxRegionUpdates /\ UpdateRegionMetrics(region_id, row_count)
  \/ \E region_id \in DOMAIN region_map_ :
       Steps /\ nupdates < MaxRegionUpdates /\ DropRegionPermanently(region_id)

SpecMetrics == Init /\ [][NextMetrics]_vars

-----------------------------------------------------------------------------
(* The ranges of one table or one index, while the region subsystem changes *)
(* the regions                                                              *)

\* the stores 1, 2, 3; the location of the store s
RangeStores == 3
Location(s) == <<10 + s>>

\* the memberships of a region: none yet, one voter, a voter and a learner,
\* two voters and a learner
PeersArgs ==
  {<<>>,
   <<Peer(1, VOTER, Location(1))>>,
   <<Peer(2, LEARNER, Location(2)), Peer(1, VOTER, Location(1))>>,
   <<Peer(1, VOTER, Location(1)), Peer(2, VOTER, Location(2)),
     Peer(3, LEARNER, Location(3))>>}

LeaderArgs == 0..RangeStores
RangeArgs == 0..MaxRanges

RangeStarts(p) == Quiet /\ MetricsQuiet /\ mpc[p] = "idle" /\ \A q \in 1..(p - 1) : mpc[q] # "idle"

NextRange ==
  \/ \E table_definition \in MetricsTableDefinitions :
       CreateStarts /\ CreateTableBegin(Client, META_SCHEMA, table_definition, 0, TRUE)
  \/ Steps /\ CreateTablePut(Client)
  \/ Steps /\ CreateTableRegions(Client, MaxRanges, {})
  \/ \E index_definition \in MetricsIndexDefinitions :
       CreateStarts /\ CreateIndexBegin(Client, META_SCHEMA, index_definition, 0, TRUE)
  \/ Steps /\ CreateIndexPut(Client)
  \/ Steps /\ CreateIndexRegions(Client, MaxRanges, {})
  \/ Steps /\ ApplyMetaIncrement
  \/ Forget(Client)
  \/ \E p \in Procs, table_id \in TableIdArgs :
       RangeStarts(p) /\ GetTableRange(p, META_SCHEMA, table_id)
  \/ \E p \in Procs, index_id \in IndexIdArgs :
       RangeStarts(p) /\ GetIndexRange(p, META_SCHEMA, index_id)
  \/ \E p \in Procs : MetricsForget(p)
  \/ \E region_id \in DOMAIN region_map_, peers \in PeersArgs,
        leader_store_id \in LeaderArgs, range \in RangeArgs :
       Steps /\ nupdates < MaxRegionUpdates
             /\ UpdateRegion(region_id, peers, leader_store_id, range)
  \/ \E region_id \in DOMAIN region_map_ :
       Steps /\ nupdates < MaxRegionUpdates /\ DropRegionPermanently(region_id)

SpecRange == Init /\ [][NextRange]_vars

-----------------------------------------------------------------------------
(* ValidateIndexDefinition on the index definitions of a bounded set *)

MetricTypeArgs == {"METRIC_TYPE_NONE", "METRIC_TYPE_L2"}
CounterArgs == {0, 1}

\* the parameter blocks: none set, or one of the five with every field drawn
\* from its arguments
BlockArgs ==
  {[block |-> "none", parameter |-> FlatParameter(0, "METRIC_TYPE_NONE")]}
  \cup {[block |-> "hnsw", parameter |-> HnswParameter(d, m, e, x, n)] :
          d \in CounterArgs, m \in MetricTypeArgs, e \in CounterArgs, x \in CounterArgs,
          n \in CounterArgs}
  \cup {[block |-> "flat", parameter |-> FlatParameter(d, m)] :
          d \in CounterArgs, m \in MetricTypeArgs}
  \cup {[block |-> "ivf_flat", parameter |-> IvfFlatParameter(d, m, c)] :
          d \in CounterArgs, m \in MetricTypeArgs, c \in CounterArgs}
  \cup {[block |-> "ivf_pq", parameter |-> IvfPqParameter(d, m, c, s, i, x)] :
          d \in CounterArgs, m \in MetricTypeArgs, c \in CounterArgs, s \in CounterArgs,
          i \in CounterArgs, x \in CounterArgs}
  \cup {[block |-> "diskann", parameter |-> DiskAnnParameter(d, m, t, n, h)] :
          d \in CounterArgs, m \in MetricTypeArgs, t \in CounterArgs, n \in CounterArgs,
          h \in CounterArgs}

VectorIndexTypeArgs ==
  {"VECTOR_INDEX_TYPE_NONE", "VECTOR_INDEX_TYPE_FLAT", "VECTOR_INDEX_TYPE_IVF_FLAT",
   "VECTOR_INDEX_TYPE_IVF_PQ", "VECTOR_INDEX_TYPE_HNSW", "VECTOR_INDEX_TYPE_DISKANN"}

\* a vector_index_parameter that is not set reads as the default one
VectorIndexParameterArgs ==
  {[has |-> FALSE, vector |-> NoVectorIndexParameter]}
  \cup {[has |-> TRUE, vector |-> VectorIndexParameter(t, b.block, b.parameter)] :
          t \in VectorIndexTypeArgs, b \in BlockArgs}

\* a scalar_index_parameter that is not set reads as SCALAR_INDEX_TYPE_NONE
ScalarIndexParameterArgs ==
  {[has |-> FALSE, scalar_index_type |-> "SCALAR_INDEX_TYPE_NONE"],
   [has |-> TRUE, scalar_index_type |-> "SCALAR_INDEX_TYPE_NONE"],
   [has |-> TRUE, scalar_index_type |-> "SCALAR_INDEX_TYPE_LSM"]}

IndexTypeArgs == {"INDEX_TYPE_NONE", "INDEX_TYPE_VECTOR", "INDEX_TYPE_SCALAR"}

ValidateArgs ==
  {Definition(n, "range", 1, FALSE,
              IndexParameter(t, v.has, v.vector, s.has, s.scalar_index_type)) :
     n \in {EmptyName} \cup Names, t \in IndexTypeArgs, v \in VectorIndexParameterArgs,
     s \in ScalarIndexParameterArgs}

\* the caller validates an index definition, once
ValidateIndexDefinitionCall(p, index_definition) ==
  LET c == Call("ValidateIndexDefinition", 0, 0, index_definition, 0, FALSE, {}) IN
  /\ pc[p] = "idle"
  /\ pc' = [pc EXCEPT ![p] = "returned"]
  /\ ret' = [ret EXCEPT ![p] = Ret(c, ValidateIndexDefinition(index_definition),
                                   EmptyMetaIncrement, <<>>, <<>>)]
  /\ UNCHANGED <<catalog, names, id_epoch_map_safe_temp_, log, call, ncalls,
                 applied_creates, metrics_, bench_>>

NextValidate ==
  \E index_definition \in ValidateArgs : ValidateIndexDefinitionCall(Client, index_definition)

SpecValidate == Init /\ [][NextValidate]_vars

-----------------------------------------------------------------------------
(* CreateTable and CreateIndex side by side: thread 1 runs a CreateTable,   *)
(* then thread 2 runs the CreateIndex of the same schema, of the same       *)
(* definition but for its index_parameter, and with the same outcomes of    *)
(* the auto-increment service and the region service.  A pair starts when   *)
(* the two name maps hold the same keys.                                    *)

MaxTwinCalls == 4

TableCaller == NumProcs - 1
IndexCaller == NumProcs

TwinSchemaIdArgs == {ROOT_SCHEMA, META_SCHEMA, FirstId}

TwinTableDefinitions ==
  {Definition(n, "range", k, a, NoIndexParameter) :
     n \in {EmptyName} \cup Names, k \in 0..MaxRanges, a \in BOOLEAN}
  \cup {Definition(n, "hash", 0, FALSE, NoIndexParameter) : n \in Names}

TwinIndexParameters == {ScalarIndexParameter("SCALAR_INDEX_TYPE_LSM"), NoIndexParameter}

\* the table name map and the index name map hold the same keys
Mirrored == DOMAIN table_name_map_safe_temp_ = DOMAIN index_name_map_safe_temp_

\* what the CreateTable of thread 1 was given: an id or none, the answer of
\* the auto-increment service, the range at which CreateRegion failed and the
\* DropRegion requests that failed
TwinNewId ==
  IF Increments(ret[TableCaller].meta, ID_NEXT_TABLE) > 0 THEN 0 ELSE ret[TableCaller].new_id

TwinAutoIncrementOk == ret[TableCaller].status # EAUTO_INCREMENT_WHILE_CREATING_TABLE

TwinCreated ==
  IF ret[TableCaller].status = ETABLE_REGION_CREATE_FAILED
    THEN Len(ret[TableCaller].new_region_ids)
    ELSE ret[TableCaller].definition.nranges

TwinFailed ==
  {i \in 1..Len(ret[TableCaller].drop_requests) :
     \A k \in 1..Len(ret[TableCaller].meta.regions) :
       ~(/\ ret[TableCaller].meta.regions[k].op_type = DELETE
         /\ ret[TableCaller].meta.regions[k].id = ret[TableCaller].drop_requests[i])}

NextTwin ==
  \/ \E schema_id \in TwinSchemaIdArgs, table_definition \in TwinTableDefinitions,
        new_table_id \in NewIdArgs, auto_increment_ok \in BOOLEAN :
       /\ pc[TableCaller] = "idle" /\ pc[IndexCaller] = "idle"
       /\ log = <<>> /\ Mirrored /\ ncalls < MaxTwinCalls
       /\ CreateTableBegin(TableCaller, schema_id, table_definition, new_table_id,
                           auto_increment_ok)
  \/ CreateTablePut(TableCaller)
  \/ \E created \in FailureArgs, failed \in DropFailureArgs :
       CreateTableRegions(TableCaller, created, failed)
  \/ \E index_parameter \in TwinIndexParameters :
       /\ pc[TableCaller] = "returned" /\ pc[IndexCaller] = "idle"
       /\ CreateIndexBegin(IndexCaller, ret[TableCaller].schema_id,
                           [ret[TableCaller].definition
                              EXCEPT !.index_parameter = index_parameter],
                           TwinNewId, TwinAutoIncrementOk)
  \/ CreateIndexPut(IndexCaller)
  \/ CreateIndexRegions(IndexCaller, TwinCreated, TwinFailed)
  \/ pc[IndexCaller] = "returned" /\ Forget(TableCaller)
  \/ pc[TableCaller] = "idle" /\ Forget(IndexCaller)
  \/ pc[TableCaller] = "idle" /\ pc[IndexCaller] = "idle" /\ ApplyMetaIncrement

SpecTwin == Init /\ [][NextTwin]_vars

-----------------------------------------------------------------------------
(* Names that begin with digits: one client creates a schema, then tables   *)
(* and indexes in META_SCHEMA and in the new schema, under names of which   *)
(* one begins with the digits that tell the two schema ids apart            *)

MaxKeyCalls == 3

KeyNames == Names \cup {<<"0", "0", "1">> \o n : n \in Names}

KeySchemaIdArgs == {META_SCHEMA, FirstId}

KeyTableDefinitions == {Definition(n, "range", 1, FALSE, NoIndexParameter) : n \in KeyNames}

KeyIndexDefinitions ==
  {Definition(n, "range", 1, FALSE, ScalarIndexParameter("SCALAR_INDEX_TYPE_LSM")) :
     n \in KeyNames}

NextKey ==
  \/ \E schema_name \in Names :
       /\ ncalls = 0
       /\ CreateSchemaBegin(Client, ROOT_SCHEMA, schema_name)
  \/ CreateSchemaPut(Client)
  \/ \E schema_id \in KeySchemaIdArgs, table_definition \in KeyTableDefinitions :
       /\ ncalls < MaxKeyCalls
       /\ CreateTableBegin(Client, schema_id, table_definition, 0, TRUE)
  \/ CreateTablePut(Client)
  \/ \E created \in FailureArgs, failed \in DropFailureArgs :
       CreateTableRegions(Client, created, failed)
  \/ \E schema_id \in KeySchemaIdArgs, index_definition \in KeyIndexDefinitions :
       /\ ncalls < MaxKeyCalls
       /\ CreateIndexBegin(Client, schema_id, index_definition, 0, TRUE)
  \/ CreateIndexPut(Client)
  \/ \E created \in FailureArgs, failed \in DropFailureArgs :
       CreateIndexRegions(Client, created, failed)
  \/ ApplyMetaIncrement

SpecKey == Init /\ [][NextKey]_vars

-----------------------------------------------------------------------------
(* Reads through another schema: the client creates one table or one index  *)
(* in META_SCHEMA, and the reads name META_SCHEMA, another schema that      *)
(* exists, or a schema that does not exist                                  *)

ReadSchemaIdArgs == {META_SCHEMA, DINGO_SCHEMA, FirstId}

NextRead ==
  \/ \E table_definition \in MetricsTableDefinitions :
       CreateStarts /\ CreateTableBegin(Client, META_SCHEMA, table_definition, 0, TRUE)
  \/ Steps /\ CreateTablePut(Client)
  \/ Steps /\ CreateTableRegions(Client, MaxRanges, {})
  \/ \E index_definition \in MetricsIndexDefinitions :
       CreateStarts /\ CreateIndexBegin(Client, META_SCHEMA, index_definition, 0, TRUE)
  \/ Steps /\ CreateIndexPut(Client)
  \/ Steps /\ CreateIndexRegions(Client, MaxRanges, {})
  \/ Steps /\ ApplyMetaIncrement
  \/ Forget(Client)
  \/ \E p \in Procs, schema_id \in ReadSchemaIdArgs, table_id \in TableIdArgs :
       MetricsStarts(p) /\ GetTableMetricsBegin(p, schema_id, table_id, 0)
  \/ \E p \in Procs : Steps /\ GetTableMetricsGet(p)
  \/ \E p \in Procs : Steps /\ GetTableMetricsCalculate(p)
  \/ \E p \in Procs : Steps /\ GetTableMetricsPut(p)
  \/ \E p \in Procs, schema_id \in ReadSchemaIdArgs, index_id \in IndexIdArgs :
       MetricsStarts(p) /\ GetIndexMetricsBegin(p, schema_id, index_id, 0)
  \/ \E p \in Procs : Steps /\ GetIndexMetricsGet(p)
  \/ \E p \in Procs : Steps /\ GetIndexMetricsCalculate(p)
  \/ \E p \in Procs : Steps /\ GetIndexMetricsPut(p)
  \/ \E p \in Procs, schema_id \in ReadSchemaIdArgs, table_id \in TableIdArgs :
       MetricsStarts(p) /\ GetTableRange(p, schema_id, table_id)
  \/ \E p \in Procs, schema_id \in ReadSchemaIdArgs, index_id \in IndexIdArgs :
       MetricsStarts(p) /\ GetIndexRange(p, schema_id, index_id)
  \/ \E p \in Procs : MetricsForget(p)

SpecRead == Init /\ [][NextRead]_vars

-----------------------------------------------------------------------------
(* The benchmark client: Benchmark::Run and its worker threads *)

MaxRegionNum == 2
MaxConcurrency == 2
MaxReqNum == 4
MaxElapsed == 2

\* the values the command line may give the flags
FlagValues ==
  [region_num : 0..MaxRegionNum, concurrency : 0..MaxConcurrency,
   req_num : 0..MaxReqNum, timelimit : {0, 1}]

\* a worker as Run creates it: not stopped, ThreadRoutine not yet begun
ThreadEntry(entries) ==
  [is_stop |-> FALSE, pc |-> "start", region_entries |-> entries,
   req_num_per_thread |-> 0, i |-> 0, region |-> 0]

\* the process is alive: no CHECK, LOG(FATAL), exit or fatal signal has ended it
Alive == bench_pc \notin {"main", "aborted"}

Threads == 1..Len(thread_entries_)

\* Stop: store true into every worker's is_stop
Stop(entries) == [t \in DOMAIN entries |-> [entries[t] EXCEPT !.is_stop = TRUE]]

\* IsStop: every worker's is_stop is set; true of an empty list
IsStop(entries) == \A t \in DOMAIN entries : entries[t].is_stop

RunStartsThreads_Always(entries, region_num) == TRUE

\* Run starts the workers when ArrangeRegion returned as many entries as asked
RunStartsThreads(entries, region_num) == Len(entries) = region_num

\* the divisor of ThreadRoutine's quota
QuotaDivisor(flags) == flags.concurrency * flags.region_num

\* the flags take the values of the command line, and Run is called
ParseCommandLineFlags ==
  /\ bench_pc = "main"
  /\ \E flags \in FlagValues : FLAGS' = flags
  /\ bench_pc' = "ArrangeRegion"
  /\ UNCHANGED <<vars_meta, metrics_, region_entries, thread_entries_, elapsed,
                 dropped, executed, stop_called>>

\* ArrangeRegion: one pass of the creating loop; CreateRegion returns the new
\* region's id, or 0 when the creation failed, and then ArrangeRegion returns
\* what it has created so far
ArrangeRegionCreate ==
  /\ bench_pc = "ArrangeRegion"
  /\ Len(region_entries) < FLAGS.region_num
  /\ \E region_id \in {0, Len(region_entries) + 1} :
       IF region_id = 0
         THEN /\ bench_pc' = "Run"
              /\ UNCHANGED region_entries
         ELSE /\ region_entries' = Append(region_entries, region_id)
              /\ UNCHANGED bench_pc
  /\ UNCHANGED <<vars_meta, metrics_, FLAGS, thread_entries_, elapsed,
                 dropped, executed, stop_called>>

\* ArrangeRegion: the loop is through, every entry is arranged and returned
ArrangeRegionReturn ==
  /\ bench_pc = "ArrangeRegion"
  /\ Len(region_entries) >= FLAGS.region_num
  /\ bench_pc' = "Run"
  /\ UNCHANGED <<vars_meta, metrics_, FLAGS, region_entries, thread_entries_, elapsed,
                 dropped, executed, stop_called>>

\* Run: the test on the number of regions created
RunCheck ==
  /\ bench_pc = "Run"
  /\ bench_pc' = IF RunStartsThreads(region_entries, FLAGS.region_num)
                   THEN "threads" ELSE "DropRegion"
  /\ UNCHANGED <<vars_meta, metrics_, FLAGS, region_entries, thread_entries_, elapsed,
                 dropped, executed, stop_called>>

\* Run: one pass of the loop that starts the workers, and after the last one
\* the call of IntervalReport, which takes its start times
RunThread ==
  /\ bench_pc = "threads"
  /\ IF Len(thread_entries_) < FLAGS.concurrency
       THEN /\ thread_entries_' = Append(thread_entries_, ThreadEntry(region_entries))
            /\ UNCHANGED <<bench_pc, elapsed>>
       ELSE /\ bench_pc' = "IntervalReport"
            /\ elapsed' = 0
            /\ UNCHANGED thread_entries_
  /\ UNCHANGED <<vars_meta, metrics_, FLAGS, region_entries, dropped, executed, stop_called>>

\* time passes while IntervalReport sleeps
Tick ==
  /\ bench_pc = "IntervalReport"
  /\ elapsed < MaxElapsed * 1000
  /\ elapsed' = elapsed + 1000
  /\ UNCHANGED <<vars_meta, metrics_, FLAGS, bench_pc, region_entries, thread_entries_,
                 dropped, executed, stop_called>>

\* IntervalReport: one pass of its loop after the sleep: Stop when the time
\* limit is set and has passed, and leave the loop when IsStop
IntervalReport ==
  /\ bench_pc = "IntervalReport"
  /\ LET limit == FLAGS.timelimit > 0 /\ elapsed > FLAGS.timelimit * 1000
         entries == IF limit THEN Stop(thread_entries_) ELSE thread_entries_
     IN /\ thread_entries_' = entries
        /\ stop_called' = (stop_called \/ limit)
        /\ bench_pc' = IF IsStop(entries) THEN "join" ELSE "IntervalReport"
  /\ UNCHANGED <<vars_meta, metrics_, FLAGS, region_entries, elapsed, dropped, executed>>

\* Run: every worker is joined, the cumulative report is made
RunJoin ==
  /\ bench_pc = "join"
  /\ \A t \in Threads : thread_entries_[t].pc = "done"
  /\ bench_pc' = "DropRegion"
  /\ UNCHANGED <<vars_meta, metrics_, FLAGS, region_entries, thread_entries_, elapsed,
                 dropped, executed, stop_called>>

\* Run: one pass of the dropping loop; DropRegion ends the process when the
\* drop fails
RunDropRegion ==
  /\ bench_pc = "DropRegion"
  /\ Len(dropped) < Len(region_entries)
  /\ dropped' = Append(dropped, region_entries[Len(dropped) + 1])
  /\ \E ok \in BOOLEAN : bench_pc' = IF ok THEN "DropRegion" ELSE "aborted"
  /\ UNCHANGED <<vars_meta, metrics_, FLAGS, region_entries, thread_entries_, elapsed,
                 executed, stop_called>>

\* Run returns
RunReturn ==
  /\ bench_pc = "DropRegion"
  /\ Len(dropped) >= Len(region_entries)
  /\ bench_pc' = "returned"
  /\ UNCHANGED <<vars_meta, metrics_, FLAGS, region_entries, thread_entries_, elapsed,
                 dropped, executed, stop_called>>

\* ThreadRoutine fails to block the signal or to get its RawKV: the process ends
ThreadRoutineFatal(t) ==
  /\ Alive
  /\ t \in Threads
  /\ thread_entries_[t].pc = "start"
  /\ bench_pc' = "aborted"
  /\ UNCHANGED <<vars_meta, metrics_, FLAGS, region_entries, thread_entries_, elapsed,
                 dropped, executed, stop_called>>

\* what the division of ThreadRoutine gives: the quotient; by zero the
\* behaviour is undefined, the division traps or gives 0
RequestsPerThread(flags) ==
  IF QuotaDivisor(flags) = 0
    THEN {[trap |-> TRUE, quotient |-> 0], [trap |-> FALSE, quotient |-> 0]}
    ELSE {[trap |-> FALSE, quotient |-> flags.req_num \div QuotaDivisor(flags)]}

\* ThreadRoutine up to its loop: the quota of rounds
ThreadRoutineBegin(t) ==
  /\ Alive
  /\ t \in Threads
  /\ thread_entries_[t].pc = "start"
  /\ \E quota \in RequestsPerThread(FLAGS) :
       IF quota.trap
         THEN /\ bench_pc' = "aborted"
              /\ UNCHANGED thread_entries_
         ELSE /\ thread_entries_' = [thread_entries_ EXCEPT ![t].pc = "loop",
                                       ![t].req_num_per_thread = quota.quotient, ![t].i = 0]
              /\ UNCHANGED bench_pc
  /\ UNCHANGED <<vars_meta, metrics_, FLAGS, region_entries, elapsed,
                 dropped, executed, stop_called>>

ThreadRoutineExit_NoStore(thread_entry) == [thread_entry EXCEPT !.pc = "done"]

\* the worker leaves ThreadRoutine: it stores true into its own is_stop
ThreadRoutineExit(thread_entry) ==
  [thread_entry EXCEPT !.is_stop = TRUE, !.pc = "done"]

\* ThreadRoutine: the head of a round: out when the quota is reached or
\* is_stop is seen set, else on to the first region, if there is one
ThreadRoutineRound(t) ==
  /\ Alive
  /\ t \in Threads
  /\ thread_entries_[t].pc = "loop"
  /\ LET e == thread_entries_[t]
     IN thread_entries_' = [thread_entries_ EXCEPT ![t] =
          IF e.i >= e.req_num_per_thread \/ e.is_stop THEN ThreadRoutineExit(e)
          ELSE IF e.region_entries = <<>> THEN [e EXCEPT !.i = e.i + 1]
          ELSE [e EXCEPT !.pc = "execute", !.region = 1]]
  /\ UNCHANGED <<vars_meta, metrics_, FLAGS, bench_pc, region_entries, elapsed,
                 dropped, executed, stop_called>>

\* ThreadRoutine: one Execute on the round's next region, and its statistics
Execute(t) ==
  /\ Alive
  /\ t \in Threads
  /\ thread_entries_[t].pc = "execute"
  /\ executed' = executed + 1
  /\ LET e == thread_entries_[t]
     IN thread_entries_' = [thread_entries_ EXCEPT ![t] =
          IF e.region < Len(e.region_entries) THEN [e EXCEPT !.region = e.region + 1]
          ELSE [e EXCEPT !.pc = "loop", !.i = e.i + 1, !.region = 0]]
  /\ UNCHANGED <<vars_meta, metrics_, FLAGS, bench_pc, region_entries, elapsed,
                 dropped, stop_called>>

\* the thread of Run
RunThreadStep ==
  \/ ArrangeRegionCreate
  \/ ArrangeRegionReturn
  \/ RunCheck
  \/ RunThread
  \/ IntervalReport
  \/ RunJoin
  \/ RunDropRegion
  \/ RunReturn

\* a worker thread, as long as nothing ends the process
WorkerStep(t) ==
  \/ ThreadRoutineBegin(t)
  \/ ThreadRoutineRound(t)
  \/ Execute(t)

NextBench ==
  \/ ParseCommandLineFlags
  \/ ArrangeRegionCreate
  \/ ArrangeRegionReturn
  \/ RunCheck
  \/ RunThread
  \/ Tick
  \/ IntervalReport
  \/ RunJoin
  \/ RunDropRegion
  \/ RunReturn
  \/ \E t \in 1..MaxConcurrency : ThreadRoutineFatal(t)
  \/ \E t \in 1..MaxConcurrency : ThreadRoutineBegin(t)
  \/ \E t \in 1..MaxConcurrency : ThreadRoutineRound(t)
  \/ \E t \in 1..MaxConcurrency : Execute(t)

SpecBench == Init /\ [][NextBench]_vars

\* the same with the scheduler's fairness: the thread of Run and every worker
\* thread get to run
SpecBenchFair ==
  /\ Init
  /\ [][NextBench]_vars
  /\ WF_vars(RunThreadStep)
  /\ \A t \in 1..MaxConcurrency : WF_vars(WorkerStep(t))

-----------------------------------------------------------------------------
(* Properties *)

Returned(p) == pc[p] = "returned"

\* the keys of a name map that a call reserved
ReservedBy(map, callno) == {k \in DOMAIN map : map[k].call = callno}

CreateOps == {"CreateSchema", "CreateTable", "CreateIndex"}

\* the *_EXISTS error of a create call
ExistsError(op) ==
  CASE op = "CreateSchema" -> ESCHEMA_EXISTS
    [] op = "CreateTable" -> ETABLE_EXISTS
    [] OTHER -> EINDEX_EXISTS

\* the errors of a call that met a failure of the auto-increment service or
\* of the region service
ServiceErrors ==
  {EAUTO_INCREMENT_WHILE_CREATING_TABLE, ETABLE_REGION_CREATE_FAILED,
   EINDEX_REGION_CREATE_FAILED}

\* two calls of the same operation for the same schema_id and name
SameTarget(r1, r2) ==
  /\ r1.op = r2.op
  /\ r1.schema_id = r2.schema_id
  /\ r1.definition.name = r2.definition.name

\* two finished calls ran concurrently: one started while the other ran
Concurrent(p, q) == q \in ret[p].during \/ p \in ret[q].during

\* thread r runs or has run a call with the target of x
Targets(r, x) ==
  \/ Returned(r) /\ SameTarget(ret[r], x)
  \/ r \in Running /\ SameTarget(call[r], x)

\* the epoch and the entries of a meta-increment that match an operation
EpochOf(op) ==
  CASE op \in {"CreateSchema", "DropSchema"} -> EPOCH_SCHEMA
    [] op \in {"CreateTable", "DropTable"} -> EPOCH_TABLE
    [] OTHER -> EPOCH_INDEX

Mutations(meta, op) ==
  CASE op \in {"CreateSchema", "DropSchema"} -> meta.schemas
    [] op \in {"CreateTable", "DropTable"} -> meta.tables
    [] OTHER -> meta.indexes

StrictlyIncreasing(seq) == \A i, j \in 1..Len(seq) : i < j => seq[i] < seq[j]

RegionCreates(meta) == SelectSeq(meta.regions, LAMBDA e : e.op_type = CREATE)

\* C1: a CreateTable call that has returned an error, on whatever path, has
\* left nothing behind: no entry of the table name map was made by the call,
\* its meta-increment carries no table entry, and no meta-increment of the
\* call waits in the log to be applied.
C1_CreateTableErrorLeavesNothing ==
  \A p \in Procs :
    (Returned(p) /\ ret[p].op = "CreateTable" /\ ret[p].status # OK) =>
      /\ ReservedBy(table_name_map_safe_temp_, ret[p].call) = {}
      /\ ret[p].meta.tables = <<>>
      /\ \A i \in 1..Len(log) : log[i].call # ret[p].call

\* a CreateTable call gave up after it had reserved the name and created a
\* region
C1_Witness ==
  \E p \in Procs :
    /\ Returned(p) /\ ret[p].op = "CreateTable"
    /\ ret[p].status = ETABLE_REGION_CREATE_FAILED
    /\ ret[p].new_region_ids # <<>>

C3_NamesUnique ==
  /\ \A a, b \in DOMAIN table_map_ :
       (/\ table_map_[a].schema_id = table_map_[b].schema_id
        /\ table_map_[a].definition.name = table_map_[b].definition.name) => a = b
  /\ \A a, b \in DOMAIN index_map_ :
       (/\ index_map_[a].schema_id = index_map_[b].schema_id
        /\ index_map_[a].definition.name = index_map_[b].definition.name) => a = b
  /\ \A a, b \in DOMAIN schema_map_ :
       schema_map_[a].name = schema_map_[b].name => a = b

\* C4 as stated: of two concurrent create calls of the same kind for the same
\* schema_id and name, at most one returns OK, and when one returns OK the
\* other returns the matching *_EXISTS error.
C4_OneOkOtherExists ==
  \A p, q \in Procs :
    (/\ p # q /\ Returned(p) /\ Returned(q)
     /\ ret[p].op \in CreateOps /\ SameTarget(ret[p], ret[q])
     /\ Concurrent(p, q)) =>
      /\ ~(ret[p].status = OK /\ ret[q].status = OK)
      /\ ret[p].status = OK => ret[q].status = ExistsError(ret[q].op)

\* C4 as amended: of two create calls of the same kind for the same schema_id
\* and name, at most one returns OK; when one returns OK the other returns
\* the matching *_EXISTS error or the error of a failure of the
\* auto-increment or region service it met; and when no third call has that
\* target and neither of the two met such a failure, one returns OK and the
\* other the matching *_EXISTS error.
C4_AtMostOneOk ==
  \A p, q \in Procs :
    (/\ p # q /\ Returned(p) /\ Returned(q)
     /\ ret[p].op \in CreateOps /\ SameTarget(ret[p], ret[q])) =>
      /\ ~(ret[p].status = OK /\ ret[q].status = OK)
      /\ ret[p].status = OK =>
           ret[q].status \in {ExistsError(ret[q].op)} \cup ServiceErrors
      /\ (/\ \A r \in Procs \ {p, q} : ~Targets(r, ret[p])
          /\ ret[p].status \notin ServiceErrors
          /\ ret[q].status \notin ServiceErrors) =>
           \/ ret[p].status = OK /\ ret[q].status = ExistsError(ret[q].op)
           \/ ret[q].status = OK /\ ret[p].status = ExistsError(ret[p].op)

\* two concurrent CreateTable calls both found the name free; one returned
\* OK and the other lost at PutIfAbsent
C4_Witness ==
  \E p, q \in Procs :
    /\ p # q /\ Returned(p) /\ Returned(q) /\ Concurrent(p, q)
    /\ ret[p].op = "CreateTable" /\ SameTarget(ret[p], ret[q])
    /\ ret[p].status = OK
    /\ ret[q].status = ETABLE_EXISTS /\ ret[q].call # 0

\* C5: the ids of the applied CREATE entries are strictly increasing, per id
\* kind (schemas; tables and indexes together), in the order of application.
C5_IdsStrictlyIncreasing ==
  /\ StrictlyIncreasing(applied_creates[ID_NEXT_SCHEMA])
  /\ StrictlyIncreasing(applied_creates[ID_NEXT_TABLE])

\* C6: the meta-increment of a call that returned OK, which is the one
\* submitted to the log, carries exactly one entry of the kind the call
\* mutates and increments the matching epoch exactly once.
C6_EpochOncePerMutation ==
  \A p \in Procs :
    (Returned(p) /\ ret[p].status = OK) =>
      /\ Len(Mutations(ret[p].meta, ret[p].op)) = 1
      /\ Increments(ret[p].meta, EpochOf(ret[p].op)) = 1
      /\ log # <<>> /\ log[Len(log)] = ret[p].meta

\* a DropTable call returned OK
C6_Witness ==
  \E p \in Procs : Returned(p) /\ ret[p].status = OK /\ ret[p].op = "DropTable"

\* C7: a meta-increment built by CreateTable, CreateIndex, DropTable or
\* DropIndex that carries region entries increments EPOCH_REGION.
C7_RegionChangesBumpEpochRegion ==
  \A p \in Procs :
    (/\ Returned(p)
     /\ ret[p].op \in {"CreateTable", "CreateIndex", "DropTable", "DropIndex"}
     /\ ret[p].meta.regions # <<>>) =>
      Increments(ret[p].meta, EPOCH_REGION) >= 1

\* C8: a table id is listed in the table_ids of some schema exactly when the
\* table store has an entry for it, and likewise for the index ids.
C8_SchemaChildrenMatchStores ==
  LET listed_tables == UNION {schema_map_[s].table_ids : s \in DOMAIN schema_map_}
      listed_indexes == UNION {schema_map_[s].index_ids : s \in DOMAIN schema_map_}
  IN /\ listed_tables = DOMAIN table_map_
     /\ listed_indexes = DOMAIN index_map_

\* C9: the entry of a CreateTable or CreateIndex call that returned OK has
\* one partition per declared range, and partition i holds the id of the
\* region that CreateRegion created for range i.
C9_PartitionsFollowRanges ==
  \A p \in Procs :
    (Returned(p) /\ ret[p].status = OK /\ ret[p].op \in {"CreateTable", "CreateIndex"}) =>
      LET meta == ret[p].meta
          entries == Mutations(meta, ret[p].op)
          e == entries[Len(entries)]
          partitions == IF ret[p].op = "CreateTable" THEN e.table.partitions
                        ELSE e.index.partitions
          creates == RegionCreates(meta)
      IN /\ Len(entries) = 1 /\ e.op_type = CREATE
         /\ Len(partitions) = ret[p].definition.nranges
         /\ Len(creates) = ret[p].definition.nranges
         /\ \A i \in 1..Len(partitions) :
              /\ creates[i].region.range = i - 1
              /\ partitions[i].region_id = creates[i].id

\* a CreateTable call for a definition of several ranges returned OK
C9_Witness ==
  \E p \in Procs :
    /\ Returned(p) /\ ret[p].status = OK /\ ret[p].op = "CreateTable"
    /\ ret[p].definition.nranges >= 2

\* C10: DropSchema of a user schema that has a table or an index returns
\* ESCHEMA_NOT_EMPTY, appends nothing to the meta-increment, leaves the name
\* of the schema reserved and its tables and indexes present.
C10_DropSchemaNotEmpty ==
  \A p \in Procs :
    (/\ Returned(p) /\ ret[p].op = "DropSchema"
     /\ ret[p].schema_id > COORDINATOR_ID_OF_MAP_MIN
     /\ ret[p].schema_id \in DOMAIN schema_map_
     /\ schema_map_[ret[p].schema_id].table_ids
          \cup schema_map_[ret[p].schema_id].index_ids # {}) =>
      LET schema_internal == schema_map_[ret[p].schema_id] IN
      /\ ret[p].status = ESCHEMA_NOT_EMPTY
      /\ ret[p].meta = EmptyMetaIncrement
      /\ schema_internal.name \in DOMAIN schema_name_map_safe_temp_
      /\ schema_internal.table_ids \subseteq DOMAIN table_map_
      /\ schema_internal.index_ids \subseteq DOMAIN index_map_

ReservedSchemaIds ==
  {ROOT_SCHEMA, META_SCHEMA, DINGO_SCHEMA, MYSQL_SCHEMA, INFORMATION_SCHEMA}

\* the schema DELETE entries of a meta-increment
SchemaDeletes(meta) == {meta.schemas[i].id : i \in {j \in 1..Len(meta.schemas) : meta.schemas[j].op_type = DELETE}}

\* C11: the five reserved schemas are in the schema store in every state; a
\* DropSchema call for a reserved schema id returns an error and leaves no
\* DELETE entry, neither in its meta-increment nor in the log.
C11_ReservedSchemasStay ==
  /\ \A s \in ReservedSchemaIds : Exists(schema_map_, s)
  /\ \A p \in Procs :
       Returned(p) /\ ret[p].op = "DropSchema" /\ ret[p].schema_id \in ReservedSchemaIds =>
         /\ ret[p].status # OK
         /\ SchemaDeletes(ret[p].meta) = {}
  /\ \A i \in 1..Len(log) : SchemaDeletes(log[i]) \cap ReservedSchemaIds = {}

\* a DropSchema call for the reserved schema META has returned its error
C11_Witness ==
  \E p \in Procs :
    /\ Returned(p) /\ ret[p].op = "DropSchema" /\ ret[p].schema_id = META_SCHEMA
    /\ ret[p].status = EILLEGAL_PARAMTETERS

\* nothing is in flight: every submitted meta-increment is applied and no
\* thread runs a call
Settled == log = <<>> /\ Running = {}

LiveTables(schema_id, name) ==
  {t \in DOMAIN table_map_ :
     table_map_[t].schema_id = schema_id /\ table_map_[t].definition.name = name}

LiveIndexes(schema_id, name) ==
  {i \in DOMAIN index_map_ :
     index_map_[i].schema_id = schema_id /\ index_map_[i].definition.name = name}

LiveSchemas(name) == {s \in DOMAIN schema_map_ : schema_map_[s].name = name}

\* the ids a name map holds for a key: one or none
Mapped(map, key) == IF Exists(map, key) THEN {GetValue(map, key)} ELSE {}

\* C12: when every meta-increment is applied and no call is in flight, the
\* name maps hold (schema_id, name) -> id exactly for the live tables,
\* indexes and schemas with that id, name and schema, and the reads by name
\* return an entity exactly when a live entity of that name exists.
C12_NameIndexMatchesStore ==
  Settled =>
    /\ \A s \in DOMAIN schema_map_, n \in Names :
         /\ Mapped(table_name_map_safe_temp_, NameKey(s, n)) = LiveTables(s, n)
         /\ GetTableByName(s, n).status = OK <=> LiveTables(s, n) # {}
         /\ Mapped(index_name_map_safe_temp_, NameKey(s, n)) = LiveIndexes(s, n)
         /\ GetIndexByName(s, n).status = OK <=> LiveIndexes(s, n) # {}
    /\ \A n \in Names :
         /\ Mapped(schema_name_map_safe_temp_, n) = LiveSchemas(n)
         /\ GetSchemaByName(n).status = OK <=> LiveSchemas(n) # {}

-----------------------------------------------------------------------------
(* The metrics cache and the sweep *)

\* the sweep visits id in this step
Visits(kind, id) == sweep.kind = kind /\ id \in sweep.todo /\ id \notin sweep'.todo

\* C13: when the sweep visits a cached table (index) that is no longer in
\* the store, the cache entry of the table (index) is erased and its
\* counter is retired.
C13_SweepErasesDropped ==
  [][/\ \A t \in sweep.todo :
          Visits("table", t) /\ ~Exists(table_map_, t) =>
            /\ ~Exists(table_metrics_map_', t)
            /\ ~Exists(coordinator_bvar_metrics_table_', t)
     /\ \A i \in sweep.todo :
          Visits("index", i) /\ ~Exists(index_map_, i) =>
            /\ ~Exists(index_metrics_map_', i)
            /\ ~Exists(coordinator_bvar_metrics_index_', i)]_vars

\* C14: a GetTableMetrics (GetIndexMetrics) call that found the table
\* (index) in the store at its check and no longer finds it when it
\* computes the metrics returns ETABLE_METRICS_FAILED (EINDEX_METRICS_FAILED).
C14_RemovedMidwayFails ==
  \A p \in Procs :
    mpc[p] = "returned" /\ mret[p].gone =>
      /\ mret[p].op = "GetTableMetrics" => mret[p].status = ETABLE_METRICS_FAILED
      /\ mret[p].op = "GetIndexMetrics" => mret[p].status = EINDEX_METRICS_FAILED

\* thread p returns OK from a call of op in this step
ReturnsOK(p, op) ==
  /\ mpc[p] # "returned" /\ mpc'[p] = "returned"
  /\ mret'[p].op = op /\ mret'[p].status = OK

\* the cache policy of a call: at the lookup the call returns exactly when
\* the cache has an entry; what it returns from the cache is that entry, and
\* the cache stays as it is; what it returns otherwise is what it computed,
\* and that is in the cache when it returns
CachePolicy(p, op, map, map_next) ==
  /\ mpc[p] \in {"GetTableMetricsGet", "GetIndexMetricsGet"} /\ mpc'[p] # mpc[p] =>
       (mpc'[p] = "returned" <=> Exists(map, mcall[p].id))
  /\ ReturnsOK(p, op) =>
       IF mret'[p].cached
         THEN /\ Exists(map, mret'[p].id)
              /\ mret'[p].value = map[mret'[p].id].metrics
              /\ map_next = map
         ELSE /\ mret'[p].value = mcall[p].internal.metrics
              /\ Exists(map_next, mret'[p].id)
              /\ map_next[mret'[p].id] = MetricsInternal(mret'[p].id, mret'[p].value)

\* the claim as stated: the second of two successive calls with no change of
\* the regions returns what the first returned
C15_SuccessiveCallsAgree ==
  [][\A p \in Procs :
       ReturnsOK(p, "GetTableMetrics") /\ mret'[p].prev_known /\ mret'[p].regions_same =>
         mret'[p].value = mret'[p].prev]_vars

\* C15: GetTableMetrics / GetIndexMetrics returns the cached entry when one
\* exists and otherwise computes the metrics, inserts them into the cache
\* and returns them; the second of two successive calls for a table returns
\* what the first returned when, from the start of the first to the return
\* of the second, no region or table changes, no sweep writes the entry of
\* the table and no other GetTableMetrics call for the table runs.
C15_CachedOrComputed ==
  [][\A p \in Procs :
       /\ mcall[p].op = "GetTableMetrics" =>
            CachePolicy(p, "GetTableMetrics", table_metrics_map_, table_metrics_map_')
       /\ mcall[p].op = "GetIndexMetrics" =>
            CachePolicy(p, "GetIndexMetrics", index_metrics_map_, index_metrics_map_')
       /\ ReturnsOK(p, "GetTableMetrics") /\ mret'[p].prev_known
            /\ mret'[p].regions_same /\ mret'[p].undisturbed =>
              mret'[p].value = mret'[p].prev]_vars

\* the second of two undisturbed successive calls has returned metrics that
\* were computed from reported row counts
C15_Witness ==
  \E p \in Procs :
    /\ mpc[p] = "returned" /\ mret[p].op = "GetTableMetrics" /\ mret[p].status = OK
    /\ mret[p].prev_known /\ mret[p].regions_same /\ mret[p].undisturbed
    /\ mret[p].cached /\ mret[p].value.rows_count > 0

\* C16: once a sweep that started after the last change of the regions has
\* visited a cached table that is still live, the cache holds the metrics
\* recomputed from the regions for it, and a GetTableMetrics call returns
\* them, for as long as the regions do not change again.
C16_SweepRefreshes ==
  /\ \A t \in refreshed :
       Exists(table_metrics_map_, t) /\ Exists(table_map_, t) =>
         table_metrics_map_[t].metrics = CalculateTableMetricsSingle(t, NoMetrics).metrics
  /\ \A p \in Procs :
       /\ mpc[p] = "returned" /\ mret[p].op = "GetTableMetrics" /\ mret[p].status = OK
       /\ mret[p].id \in refreshed /\ Exists(table_map_, mret[p].id)
       => mret[p].value = CalculateTableMetricsSingle(mret[p].id, NoMetrics).metrics

\* C17: the caches hold only ids that a GetTableMetrics / GetIndexMetrics
\* call inserted: the sweep adds none, whatever runs beside it.
C17_SweepAdmitsNothing ==
  /\ DOMAIN table_metrics_map_ \subseteq admitted.table
  /\ DOMAIN index_metrics_map_ \subseteq admitted.index

\* the sweep is under way with nothing left to visit and has written the
\* counter of a table, a call for the table is about to insert its entry,
\* and the store holds a table
C17_Witness ==
  /\ sweep.kind = "table" /\ sweep.todo = {}
  /\ \E t \in DOMAIN table_map_ :
       /\ Exists(coordinator_bvar_metrics_table_, t)
       /\ \E p \in Procs : mpc[p] = "GetTableMetricsPut" /\ mcall[p].id = t

-----------------------------------------------------------------------------
(* The aggregation *)

\* the regions of a partition list that are in the region store and have
\* metrics
Counted(partitions) ==
  {partitions[i].region_id : i \in 1..Len(partitions)}
    \cap DOMAIN region_map_ \cap DOMAIN region_metrics_

\* the key of a set that sorts first, and the one that sorts last
SmallestKey(keys) == CHOOSE k \in keys : \A j \in keys : compare(k, j) <= 0
LargestKey(keys) == CHOOSE k \in keys : \A j \in keys : compare(k, j) >= 0

MinMaxOverRegions(partitions, metrics) ==
  LET regions == Counted(partitions) IN
  regions # {} =>
    /\ metrics.min_key = SmallestKey({region_metrics_[r].min_key : r \in regions})
    /\ metrics.max_key = LargestKey({region_metrics_[r].max_key : r \in regions})

\* C18: the min_key computed for a table (index) is the smallest min_key of
\* its regions in byte order, and the max_key the largest max_key.
C18_MinMaxKeys ==
  /\ \A t \in DOMAIN table_map_ :
       MinMaxOverRegions(table_map_[t].partitions,
                         CalculateTableMetricsSingle(t, NoMetrics).metrics)
  /\ \A i \in DOMAIN index_map_ :
       MinMaxOverRegions(index_map_[i].partitions,
                         CalculateIndexMetricsSingle(i, NoMetrics).metrics)

\* the sum of the reported row counts of a set of regions
RECURSIVE SumRowCount(_)
SumRowCount(regions) ==
  IF regions = {} THEN 0
  ELSE LET r == CHOOSE x \in regions : TRUE
       IN region_metrics_[r].row_count + SumRowCount(regions \ {r})

RowsAndParts(partitions, calculated) ==
  /\ ~CalculateFailed(calculated.ret)
  /\ calculated.metrics.rows_count = SumRowCount(Counted(partitions))
  /\ calculated.metrics.part_count = Len(partitions)

\* C19: for a table (index) of the store the aggregation does not fail, its
\* rows_count is the sum of row_count over the partitions whose region is in
\* the region store and has metrics, the others being passed over, and its
\* part_count is the number of partitions.
C19_RowsAndPartCount ==
  /\ \A t \in DOMAIN table_map_ :
       RowsAndParts(table_map_[t].partitions, CalculateTableMetricsSingle(t, NoMetrics))
  /\ \A i \in DOMAIN index_map_ :
       RowsAndParts(index_map_[i].partitions, CalculateIndexMetricsSingle(i, NoMetrics))

\* a GetTableMetrics call has computed and returned the metrics of a table
\* with a partition whose region is gone and one whose region has metrics
C19_Witness ==
  \E p \in Procs :
    /\ mpc[p] = "returned" /\ mret[p].op = "GetTableMetrics" /\ mret[p].status = OK
    /\ ~mret[p].cached /\ Exists(table_map_, mret[p].id)
    /\ mret[p].value = CalculateTableMetricsSingle(mret[p].id, NoMetrics).metrics
    /\ mret[p].value.rows_count > 0
    /\ \E i \in 1..Len(table_map_[mret[p].id].partitions) :
         ~Exists(region_map_, table_map_[mret[p].id].partitions[i].region_id)

-----------------------------------------------------------------------------
(* The ranges *)

\* the partitions of a list whose region is in the region store
FoundPartitions(partitions) ==
  {i \in 1..Len(partitions) : Exists(region_map_, partitions[i].region_id)}

SkipsMissing(partitions, entries) ==
  /\ Len(entries) = Cardinality(FoundPartitions(partitions))
  /\ \A k \in 1..Len(entries) : Exists(region_map_, entries[k].id)

\* C20: the response of GetTableRange / GetIndexRange holds no entry for a
\* partition whose region is not in the region store: it has as many entries
\* as there are partitions whose region is there.
C20_MissingRegionSkipped ==
  \A p \in Procs :
    mpc[p] = "returned" /\ mret[p].status = OK =>
      /\ mret[p].op = "GetTableRange" =>
           SkipsMissing(table_map_[mret[p].id].partitions, mret[p].entries)
      /\ mret[p].op = "GetIndexRange" =>
           SkipsMissing(index_map_[mret[p].id].partitions, mret[p].entries)

\* the locations of the peers of a role, in the order of the peers
RECURSIVE LocationsOf(_, _)
LocationsOf(peers, role) ==
  IF peers = <<>> THEN <<>>
  ELSE (IF Head(peers).role = role THEN <<Head(peers).server_location>> ELSE <<>>)
       \o LocationsOf(Tail(peers), role)

\* an entry reports a region as the region store holds it
ReportsRegion(range_distribution, region) ==
  /\ range_distribution.has_range /\ range_distribution.range = region.range
  /\ \A j \in 1..Len(region.peers) :
       region.peers[j].store_id = region.leader_store_id =>
         range_distribution.leader = region.peers[j].server_location
  /\ range_distribution.voters = LocationsOf(region.peers, VOTER)
  /\ range_distribution.learners = LocationsOf(region.peers, LEARNER)
  /\ range_distribution.regionmap_epoch = id_epoch_map_safe_temp_[EPOCH_REGION]
  /\ range_distribution.storemap_epoch = id_epoch_map_safe_temp_[EPOCH_STORE]

\* C21: for every partition whose region is in the region store, the entry of
\* GetTableRange / GetIndexRange holds the range of the region record, as
\* leader the location of the peer whose store is the leader store, the
\* locations of the VOTER peers as voters and of the LEARNER peers as learners,
\* and the present values of EPOCH_REGION and EPOCH_STORE.
C21_RangeFromRegion ==
  \A p \in Procs :
    mpc[p] = "returned" /\ mret[p].status = OK
    /\ mret[p].op \in {"GetTableRange", "GetIndexRange"} =>
      \A k \in 1..Len(mret[p].entries) :
        Exists(region_map_, mret[p].entries[k].id) =>
          ReportsRegion(mret[p].entries[k], region_map_[mret[p].entries[k].id])

\* a range read has returned an entry for a region that was split and has a
\* leader that is not its first peer, a voter and a learner
C21_Witness ==
  \E p \in Procs :
    /\ mpc[p] = "returned" /\ mret[p].status = OK
    /\ mret[p].op \in {"GetTableRange", "GetIndexRange"}
    /\ \E k \in 1..Len(mret[p].entries) :
         /\ Exists(region_map_, mret[p].entries[k].id)
         /\ LET region == region_map_[mret[p].entries[k].id] IN
            /\ region.range # k
            /\ Len(region.peers) > 1
            /\ region.leader_store_id = region.peers[2].store_id
            /\ mret[p].entries[k].voters # <<>>
            /\ mret[p].entries[k].learners # <<>>

-----------------------------------------------------------------------------
(* DropTable, DropIndex *)

\* the DELETE entries of a list of entries
Deletes(entries) == SelectSeq(entries, LAMBDA e : e.op_type = DELETE)

\* a drop that returns r for the stored entity: a DropRegion request for the
\* region of every partition, one DELETE entry, which carries the entity, the
\* reservation of the entity's name gone from the name map, OK
DropOutcome(r, entity, payloads, name_map) ==
  /\ r.status = OK
  /\ r.drop_requests = [i \in 1..Len(entity.partitions) |-> entity.partitions[i].region_id]
  /\ payloads = <<entity>>
  /\ ~Exists(name_map, NameKey(entity.schema_id, entity.definition.name))

DropTableOutcome(p) ==
  (/\ ret'[p] # ret[p] /\ ret'[p].op = "DropTable"
   /\ ValidateSchema(ret'[p].schema_id) /\ Exists(table_map_, ret'[p].new_id)) =>
    DropOutcome(ret'[p], table_map_[ret'[p].new_id],
                [i \in 1..Len(Deletes(ret'[p].meta.tables)) |->
                   Deletes(ret'[p].meta.tables)[i].table],
                table_name_map_safe_temp_')

DropIndexOutcome(p) ==
  (/\ ret'[p] # ret[p] /\ ret'[p].op = "DropIndex"
   /\ ValidateSchema(ret'[p].schema_id) /\ Exists(index_map_, ret'[p].new_id)) =>
    DropOutcome(ret'[p], index_map_[ret'[p].new_id],
                [i \in 1..Len(Deletes(ret'[p].meta.indexes)) |->
                   Deletes(ret'[p].meta.indexes)[i].index],
                index_name_map_safe_temp_')

\* C22: DropTable / DropIndex of an entity of the store issues a DropRegion
\* for the region of every partition, whether or not a DropRegion fails,
\* appends exactly one DELETE entry, whose payload is the stored entity,
\* releases the reservation of the entity's name and returns OK.
C22_DropReleasesName ==
  [][\A p \in Procs : DropTableOutcome(p) /\ DropIndexOutcome(p)]_vars

-----------------------------------------------------------------------------
(* CreateTable on a reserved name *)

\* the call allocated its id from ID_NEXT_TABLE
AllocatedId(r) == Increments(r.meta, ID_NEXT_TABLE) > 0

\* the ids of the tables that are in the store or wait in the log
EarlierTableIds ==
  DOMAIN table_map_ \cup
  UNION {{log[i].tables[j].id : j \in 1..Len(log[i].tables)} : i \in 1..Len(log)}

\* a CreateTable that returns ETABLE_EXISTS has called no CreateRegion and
\* submits nothing: the log, the stores and the applied counters stay
ExistsLeavesNoId(r) ==
  /\ r.new_region_ids = <<>> /\ r.meta.regions = <<>>
  /\ UNCHANGED <<log, table_map_, region_map_, id_epoch_map_>>

\* the step in which the call of p returns from CreateTable
CreateTableReturns(p) == ret'[p] # ret[p] /\ ret'[p].op = "CreateTable"

\* C23: a CreateTable on a reserved name returns ETABLE_EXISTS without a
\* CreateRegion and without an id that persists, and the id a successful
\* CreateTable allocates is strictly larger than every earlier table id.
C23_ExistsKeepsIdsIncreasing ==
  [][\A p \in Procs :
       CreateTableReturns(p) =>
         /\ ret'[p].status = ETABLE_EXISTS => ExistsLeavesNoId(ret'[p])
         /\ ret'[p].status = OK /\ AllocatedId(ret'[p]) =>
              \A id \in EarlierTableIds : ret'[p].new_id > id]_vars

-----------------------------------------------------------------------------
(* CreateTable when the auto-increment series cannot be created *)

\* C24: CreateTable returns EAUTO_INCREMENT_WHILE_CREATING_TABLE only for a
\* definition with an auto-increment column, and the call that returns it has
\* created no region, appended no table entry, submitted nothing and made no
\* entry in the table name map.
C24_AutoIncrementFailureLeavesNothing ==
  [][\A p \in Procs :
       (CreateTableReturns(p)
        /\ ret'[p].status = EAUTO_INCREMENT_WHILE_CREATING_TABLE) =>
         /\ ret'[p].definition.auto_increment
         /\ ret'[p].new_region_ids = <<>> /\ ret'[p].meta.regions = <<>>
         /\ ret'[p].meta.tables = <<>>
         /\ UNCHANGED <<log, table_name_map_safe_temp_>>]_vars

\* a CreateTable on a free name has returned
\* EAUTO_INCREMENT_WHILE_CREATING_TABLE after it had allocated its id
C24_Witness ==
  \E p \in Procs :
    /\ Returned(p) /\ ret[p].op = "CreateTable"
    /\ ret[p].status = EAUTO_INCREMENT_WHILE_CREATING_TABLE
    /\ AllocatedId(ret[p])
    /\ ~Exists(table_name_map_safe_temp_, NameKey(ret[p].schema_id, ret[p].definition.name))

-----------------------------------------------------------------------------
(* The compensation of a create whose DropRegion fails *)

RegionDeletes(meta) == SelectSeq(meta.regions, LAMBDA e : e.op_type = DELETE)

\* a DropRegion that the call requested has failed: it appended no entry
DropRegionFailed(r) == Len(RegionDeletes(r.meta)) < Len(r.drop_requests)

\* C25: a CreateTable or CreateIndex call in whose compensation a DropRegion
\* of a created region failed returns EINTERNAL.
C25_FailedCompensationIsInternal ==
  \A p \in Procs :
    (Returned(p) /\ ret[p].op \in {"CreateTable", "CreateIndex"}
     /\ DropRegionFailed(ret[p])) =>
      ret[p].status = EINTERNAL

-----------------------------------------------------------------------------
(* CreateSchema *)

\* the step in which the call of p returns from CreateSchema
CreateSchemaReturns(p) == ret'[p] # ret[p] /\ ret'[p].op = "CreateSchema"

\* C26: CreateSchema with a parent other than ROOT_SCHEMA, or with an empty
\* name, returns EILLEGAL_PARAMTETERS with an empty meta-increment and
\* leaves the schema name map as it was.
C26_IllegalCreateSchemaChangesNothing ==
  [][\A p \in Procs :
       (CreateSchemaReturns(p)
        /\ (ret'[p].schema_id # ROOT_SCHEMA \/ ret'[p].definition.name = EmptyName)) =>
         /\ ret'[p].status = EILLEGAL_PARAMTETERS
         /\ ret'[p].meta = EmptyMetaIncrement
         /\ UNCHANGED <<schema_name_map_safe_temp_, log>>]_vars

\* CreateSchema(ROOT_SCHEMA, "") has returned EILLEGAL_PARAMTETERS
C26_Witness ==
  \E p \in Procs :
    /\ Returned(p) /\ ret[p].op = "CreateSchema"
    /\ ret[p].schema_id = ROOT_SCHEMA /\ ret[p].definition.name = EmptyName
    /\ ret[p].status = EILLEGAL_PARAMTETERS

-----------------------------------------------------------------------------
(* CreateSchema on the catalog of the five reserved schemas *)

\* the schema store holds the five reserved schemas and no other
OnlyRootSchemas == schema_map_ = GenerateRootSchemas

\* the meta-increment of a successful CreateSchema(ROOT_SCHEMA, name): one
\* schema entry, a CREATE of the id taken from ID_NEXT_SCHEMA with the name,
\* and one increment of EPOCH_SCHEMA
CreateSchemaEntries(r) ==
  /\ Len(r.meta.schemas) = 1
  /\ r.meta.schemas[1].op_type = CREATE
  /\ r.meta.schemas[1].id = r.new_id
  /\ r.meta.schemas[1].schema_internal.name = r.definition.name
  /\ Increments(r.meta, ID_NEXT_SCHEMA) = 1
  /\ \E i \in 1..Len(r.meta.idepochs) :
       r.meta.idepochs[i] = [id |-> ID_NEXT_SCHEMA, value |-> r.new_id]
  /\ Increments(r.meta, EPOCH_SCHEMA) = 1

\* the step that applies the meta-increment of a CreateSchema
AppliesCreateSchema ==
  /\ log # <<>> /\ log' = Tail(log)
  /\ Len(Head(log).schemas) > 0 /\ Head(log).schemas[1].op_type = CREATE

\* after the step GetSchemas(ROOT_SCHEMA) returns the schemas it returned
\* before and the new one, and EPOCH_SCHEMA is larger by 1
AppliedCreateSchema ==
  LET e == Head(log).schemas[1] IN
  /\ GetSchemas(ROOT_SCHEMA)'.status = OK
  /\ GetSchemas(ROOT_SCHEMA)'.schemas =
       {GetSchemasEntry(ROOT_SCHEMA, id, GenerateRootSchemas[id]) :
          id \in DOMAIN GenerateRootSchemas}
       \cup {[id |-> DingoCommonId(ENTITY_TYPE_SCHEMA, ROOT_SCHEMA, e.id),
              name |-> e.schema_internal.name, table_ids |-> {}]}
  /\ Cardinality(GetSchemas(ROOT_SCHEMA)'.schemas) = 6
  /\ id_epoch_map_'[EPOCH_SCHEMA] = id_epoch_map_[EPOCH_SCHEMA] + 1

\* C27: on a schema store of the five reserved schemas, a CreateSchema that
\* returns OK has appended exactly one schema CREATE entry, with the id it
\* took from ID_NEXT_SCHEMA and the name, and exactly one EPOCH_SCHEMA
\* increment; when that is applied GetSchemas(ROOT_SCHEMA) returns the five
\* reserved schemas and the new one, and EPOCH_SCHEMA has grown by 1.
C27_CreateSchemaOnReservedCatalog ==
  [][/\ \A p \in Procs :
          (OnlyRootSchemas /\ CreateSchemaReturns(p) /\ ret'[p].status = OK) =>
            CreateSchemaEntries(ret'[p])
     /\ (OnlyRootSchemas /\ AppliesCreateSchema) => AppliedCreateSchema]_vars

\* the schema created on the five reserved schemas has been applied: the
\* schema store holds six schemas and the log is empty
C27_Witness ==
  /\ Cardinality(DOMAIN schema_map_) = 6 /\ log = <<>>
  /\ Cardinality(GetSchemas(ROOT_SCHEMA).schemas) = 6
  /\ id_epoch_map_[EPOCH_SCHEMA] = COORDINATOR_ID_OF_MAP_MIN + 1

-----------------------------------------------------------------------------
(* CreateTable with an illegal definition *)

\* the definition has no table_partition, has a hash_partition, has no
\* range_partition, or declares no range
IllegalPartition(definition) ==
  definition.partition \in {"none", "hash", "unset"} \/ definition.nranges = 0

\* the call returns ETABLE_DEFINITION_ILLEGAL and has allocated no id,
\* reserved no name and created no region
RejectsDefinition(r) ==
  /\ r.status = ETABLE_DEFINITION_ILLEGAL
  /\ r.meta = EmptyMetaIncrement /\ r.new_region_ids = <<>>
  /\ UNCHANGED <<id_epoch_map_safe_temp_, table_name_map_safe_temp_, log>>

-----------------------------------------------------------------------------
(* ValidateIndexDefinition *)

\* the parameter block that matches a vector_index_type
MatchingBlock ==
  [t \in VectorIndexTypeArgs \ {"VECTOR_INDEX_TYPE_NONE"} |->
     CASE t = "VECTOR_INDEX_TYPE_HNSW" -> "hnsw"
       [] t = "VECTOR_INDEX_TYPE_FLAT" -> "flat"
       [] t = "VECTOR_INDEX_TYPE_IVF_FLAT" -> "ivf_flat"
       [] t = "VECTOR_INDEX_TYPE_IVF_PQ" -> "ivf_pq"
       [] OTHER -> "diskann"]

\* every numeric field of a parameter block is above 0 and its metric_type
\* is not NONE
ConstraintsHold(parameter) ==
  /\ parameter.metric_type # "METRIC_TYPE_NONE"
  /\ \A f \in DOMAIN parameter \ {"metric_type"} : parameter[f] > 0

VectorParameterLegal(index_parameter) ==
  LET vp == index_parameter.vector_index_parameter IN
  /\ index_parameter.has_vector_index_parameter
  /\ vp.vector_index_type \in DOMAIN MatchingBlock
  /\ vp.block = MatchingBlock[vp.vector_index_type]
  /\ ConstraintsHold(vp.parameter)

ScalarParameterLegal(index_parameter) ==
  /\ index_parameter.has_scalar_index_parameter
  /\ index_parameter.scalar_index_type # "SCALAR_INDEX_TYPE_NONE"

IndexDefinitionLegal(index_definition) ==
  LET index_parameter == index_definition.index_parameter IN
  /\ index_definition.name # EmptyName
  /\ index_parameter.index_type # "INDEX_TYPE_NONE"
  /\ index_parameter.index_type = "INDEX_TYPE_VECTOR" => VectorParameterLegal(index_parameter)
  /\ index_parameter.index_type = "INDEX_TYPE_SCALAR" => ScalarParameterLegal(index_parameter)

\* C29: ValidateIndexDefinition returns OK exactly when the name is not
\* empty, index_type is not NONE, for a VECTOR index the block matching
\* vector_index_type is set and every constraint on it holds, and for a
\* SCALAR index scalar_index_parameter is set with a scalar_index_type other
\* than NONE; otherwise it returns an error.
C29_ValidateIndexDefinition ==
  \A p \in Procs :
    Returned(p) /\ ret[p].op = "ValidateIndexDefinition" =>
      /\ ret[p].status = OK <=> IndexDefinitionLegal(ret[p].definition)
      /\ ret[p].status \in {OK, EILLEGAL_PARAMTETERS}

\* an IVF_PQ definition that fails only on bucket_max_size has been rejected
C29_Witness ==
  \E p \in Procs :
    /\ Returned(p) /\ ret[p].op = "ValidateIndexDefinition"
    /\ ret[p].status = EILLEGAL_PARAMTETERS
    /\ ret[p].definition.index_parameter.index_type = "INDEX_TYPE_VECTOR"
    /\ ret[p].definition.index_parameter.vector_index_parameter =
         VectorIndexParameter("VECTOR_INDEX_TYPE_IVF_PQ", "ivf_pq",
                              IvfPqParameter(1, "METRIC_TYPE_L2", 1, 1, 1, 0))

-----------------------------------------------------------------------------
(* CreateIndex against CreateTable *)

\* the outcome of a CreateIndex read as one of a CreateTable: the EINDEX_
\* codes, EPOCH_INDEX, INDEX_REGION, the prefix I_ and the index entries are
\* taken for their table counterparts; ids are left aside, as the two calls
\* draw theirs one after the other from the same counters
MirrorStatus(status) ==
  CASE status = EINDEX_EXISTS -> ETABLE_EXISTS
    [] status = EINDEX_DEFINITION_ILLEGAL -> ETABLE_DEFINITION_ILLEGAL
    [] status = EINDEX_REGION_CREATE_FAILED -> ETABLE_REGION_CREATE_FAILED
    [] OTHER -> status

MirrorKinds(meta) ==
  [i \in 1..Len(meta.idepochs) |->
     IF meta.idepochs[i].id = EPOCH_INDEX THEN EPOCH_TABLE ELSE meta.idepochs[i].id]

MirrorRegionType(region_type) ==
  IF region_type = "INDEX_REGION" THEN "STORE_REGION" ELSE region_type

MirrorRegionName(name) == IF name # <<>> /\ Head(name) = "I" THEN <<"T">> \o Tail(name) ELSE name

\* the region entries of a meta-increment without their ids; owned tells
\* whether the region names the entity new_id as its owner
TableRegionEntries(r) ==
  [i \in 1..Len(r.meta.regions) |->
     LET e == r.meta.regions[i] IN
     [op_type |-> e.op_type, region_type |-> e.region.region_type, name |-> e.region.name,
      replica |-> e.region.replica, range |-> e.region.range,
      schema_id |-> e.region.schema_id,
      owned |-> e.op_type = CREATE => e.region.table_id = r.new_id /\ e.region.index_id = 0]]

IndexRegionEntries(r) ==
  [i \in 1..Len(r.meta.regions) |->
     LET e == r.meta.regions[i] IN
     [op_type |-> e.op_type, region_type |-> MirrorRegionType(e.region.region_type),
      name |-> MirrorRegionName(e.region.name),
      replica |-> e.region.replica, range |-> e.region.range,
      schema_id |-> e.region.schema_id,
      owned |-> e.op_type = CREATE => e.region.index_id = r.new_id /\ e.region.table_id = 0]]

\* the table or index entries of a meta-increment without their ids
EntityEntries(r, entries, payload(_)) ==
  [i \in 1..Len(entries) |->
     [op_type |-> entries[i].op_type, own_id |-> entries[i].id = r.new_id,
      schema_id |-> payload(entries[i]).schema_id,
      name |-> payload(entries[i]).definition.name,
      partitions |-> Len(payload(entries[i]).partitions)]]

\* the CreateIndex that returned ri did what the CreateTable that returned rt
\* did
SameOutcome(rt, ri) ==
  /\ rt.status = MirrorStatus(ri.status)
  /\ Len(rt.new_region_ids) = Len(ri.new_region_ids)
  /\ Len(rt.drop_requests) = Len(ri.drop_requests)
  /\ IdEpochKinds(rt.meta) = MirrorKinds(ri.meta)
  /\ TableRegionEntries(rt) = IndexRegionEntries(ri)
  /\ EntityEntries(rt, rt.meta.tables, LAMBDA e : e.table)
       = EntityEntries(ri, ri.meta.indexes, LAMBDA e : e.index)
  /\ rt.meta.indexes = <<>> /\ ri.meta.tables = <<>>

\* both calls of a pair have returned
PairReturned == pc[TableCaller] = "returned" /\ pc[IndexCaller] = "returned"

\* the schema checks, which both calls make first, rejected the pair
SchemaRejected(r) == r.schema_id = ROOT_SCHEMA \/ ~Exists(schema_map_, r.schema_id)

-----------------------------------------------------------------------------
(* Name keys across schemas *)

\* the tables and indexes that exist or whose creation waits in the log
KnownTables ==
  {table_map_[id] : id \in DOMAIN table_map_}
  \cup UNION {{log[i].tables[j].table :
                 j \in {k \in 1..Len(log[i].tables) : log[i].tables[k].op_type = CREATE}} :
              i \in 1..Len(log)}

KnownIndexes ==
  {index_map_[id] : id \in DOMAIN index_map_}
  \cup UNION {{log[i].indexes[j].index :
                 j \in {k \in 1..Len(log[i].indexes) : log[i].indexes[k].op_type = CREATE}} :
              i \in 1..Len(log)}

\* the create call of the client found the name taken, and an entity of the
\* schema it named has the name
ExistsInOwnSchema(r) ==
  /\ r.status = ETABLE_EXISTS =>
       \E t \in KnownTables :
         t.schema_id = r.schema_id /\ t.definition.name = r.definition.name
  /\ r.status = EINDEX_EXISTS =>
       \E x \in KnownIndexes :
         x.schema_id = r.schema_id /\ x.definition.name = r.definition.name

\* a read by name that returns OK returns an entity of the schema and of the
\* name it was asked for
ResolvesInOwnSchema(schema_id, name) ==
  /\ LET r == GetTableByName(schema_id, name) IN
       r.status = OK => /\ table_map_[r.entity.id].schema_id = schema_id
                        /\ r.entity.name = name
  /\ LET r == GetIndexByName(schema_id, name) IN
       r.status = OK => /\ index_map_[r.entity.id].schema_id = schema_id
                        /\ r.entity.name = name

\* C31: a table or index name reserved in one schema never makes CreateTable
\* or CreateIndex fail with *_EXISTS in another schema, and never makes
\* GetTableByName or GetIndexByName resolve in another schema.
C31_NameKeySeparatesSchemas ==
  /\ pc[Client] = "returned" => ExistsInOwnSchema(ret[Client])
  /\ \A schema_id \in KeySchemaIdArgs, name \in KeyNames :
       ResolvesInOwnSchema(schema_id, name)

-----------------------------------------------------------------------------
(* The reservations a drop leaves alone *)

\* thread p returns OK from the drop op in this step
DropReturnsOK(p, op) == ret'[p] # ret[p] /\ ret'[p].op = op /\ ret'[p].status = OK

\* the step takes the reservation of the entity out of its name map and
\* changes no other reservation
ReleasesOnly(entity, name_map, name_map_next) ==
  /\ name_map_next = Erase(name_map, NameKey(entity.schema_id, entity.definition.name))
  /\ Exists(name_map, NameKey(entity.schema_id, entity.definition.name)) =>
       name_map_next # name_map

DropTableFrame(p) ==
  DropReturnsOK(p, "DropTable") =>
    /\ ReleasesOnly(table_map_[ret'[p].new_id], table_name_map_safe_temp_,
                    table_name_map_safe_temp_')
    /\ UNCHANGED <<schema_name_map_safe_temp_, index_name_map_safe_temp_>>

DropIndexFrame(p) ==
  DropReturnsOK(p, "DropIndex") =>
    /\ ReleasesOnly(index_map_[ret'[p].new_id], index_name_map_safe_temp_,
                    index_name_map_safe_temp_')
    /\ UNCHANGED <<schema_name_map_safe_temp_, table_name_map_safe_temp_>>

\* C32: a DropTable or DropIndex that returns OK removes exactly the name
\* reservation of the dropped entity and leaves every other reservation
\* unchanged, whatever schema_id it was called with.
C32_DropReleasesExactlyOne ==
  [][\A p \in Procs : DropTableFrame(p) /\ DropIndexFrame(p)]_vars

-----------------------------------------------------------------------------
(* Drops of one entity *)

\* the ids of the DELETE entries of a sequence of lists of entries, in their
\* order
RECURSIVE DeletedIds(_)
DeletedIds(lists) ==
  IF lists = <<>> THEN <<>>
  ELSE LET deletes == Deletes(Head(lists)) IN
       [i \in 1..Len(deletes) |-> deletes[i].id] \o DeletedIds(Tail(lists))

\* no element occurs twice in the sequence
NoRepeat(seq) == \A i, j \in 1..Len(seq) : seq[i] = seq[j] => i = j

\* C33: for a live table (index, schema) at most one DropTable (DropIndex,
\* DropSchema) returns OK and appends a DELETE entry for it, also when the
\* second drop is issued before the meta-increment of the first is applied:
\* the meta-increments submitted and not yet applied hold at most one DELETE
\* entry for an id.
C33_OneDropPerEntity ==
  /\ NoRepeat(DeletedIds([i \in 1..Len(log) |-> log[i].tables]))
  /\ NoRepeat(DeletedIds([i \in 1..Len(log) |-> log[i].indexes]))
  /\ NoRepeat(DeletedIds([i \in 1..Len(log) |-> log[i].schemas]))

-----------------------------------------------------------------------------
(* The schema of a live table or index *)

\* C34: every live table and every live index has a schema_id that is a live
\* schema, for every interleaving of CreateTable / CreateIndex and DropSchema
\* calls followed by the application of their meta-increments in order.
C34_EntitiesHaveLiveSchema ==
  /\ \A table_id \in DOMAIN table_map_ :
       Exists(schema_map_, table_map_[table_id].schema_id)
  /\ \A index_id \in DOMAIN index_map_ :
       Exists(schema_map_, index_map_[index_id].schema_id)

-----------------------------------------------------------------------------
(* The auto-increment series of a create that fails *)

\* the series the call had created, and those it asked to delete
SeriesCreated(r) ==
  {r.auto_increments[i].id :
     i \in {j \in 1..Len(r.auto_increments) :
              r.auto_increments[j].op = "create" /\ r.auto_increments[j].ok}}

SeriesDeleted(r) ==
  {r.auto_increments[i].id :
     i \in {j \in 1..Len(r.auto_increments) : r.auto_increments[j].op = "delete"}}

\* C35: when CreateTable or CreateIndex returns an error after its
\* auto-increment series was created (the name taken at PutIfAbsent, or too
\* few regions created), no series created by the call remains: the call
\* asked for the deletion of every series it created.
C35_FailedCreateDeletesSeries ==
  \A p \in Procs :
    (/\ pc[p] = "returned"
     /\ ret[p].op \in {"CreateTable", "CreateIndex"}
     /\ ret[p].status # OK) =>
      SeriesCreated(ret[p]) \subseteq SeriesDeleted(ret[p])

-----------------------------------------------------------------------------
(* The meta-increment of a create that fails *)

\* thread p has returned an error from a create call
CreateFailed(p) == pc[p] = "returned" /\ ret[p].op \in CreateOps /\ ret[p].status # OK

\* the meta-increment holds nothing
Untouched(meta) ==
  /\ meta.idepochs = <<>> /\ meta.regions = <<>>
  /\ meta.schemas = <<>> /\ meta.tables = <<>> /\ meta.indexes = <<>>

\* the error was found by a check of the arguments
ValidationErrors ==
  {EILLEGAL_PARAMTETERS, ETABLE_DEFINITION_ILLEGAL, EINDEX_DEFINITION_ILLEGAL}

\* the id counter a create call allocates from
IdKind(op) == IF op = "CreateSchema" THEN ID_NEXT_SCHEMA ELSE ID_NEXT_TABLE

\* what a failed create call leaves in its meta-increment: nothing after a
\* validation error; at most the allocation of its id after *_EXISTS or a
\* failure of the auto-increment service; after a failure of the region
\* service the allocation of its id and, for every region it created, the
\* allocation of the region id and the CREATE entry, and the DELETE entries of
\* the DropRegion requests, which are made for every region created
LeftByFailure(r) ==
  /\ r.meta.schemas = <<>> /\ r.meta.tables = <<>> /\ r.meta.indexes = <<>>
  /\ Increments(r.meta, IdKind(r.op)) <= 1
  /\ IF r.status \in ValidationErrors THEN Untouched(r.meta)
     ELSE IF r.status \in {ETABLE_REGION_CREATE_FAILED, EINDEX_REGION_CREATE_FAILED}
       THEN /\ Range(IdEpochKinds(r.meta)) \subseteq {ID_NEXT_TABLE, ID_NEXT_REGION}
            /\ Increments(r.meta, ID_NEXT_REGION) = Len(r.new_region_ids)
            /\ [i \in 1..Len(RegionCreates(r.meta)) |-> RegionCreates(r.meta)[i].id]
                 = r.new_region_ids
            /\ r.drop_requests = r.new_region_ids
            /\ {Deletes(r.meta.regions)[i].id : i \in 1..Len(Deletes(r.meta.regions))}
                 \subseteq Range(r.drop_requests)
     ELSE /\ r.meta.regions = <<>>
          /\ Range(IdEpochKinds(r.meta)) \subseteq {IdKind(r.op)}

\* C36: a CreateSchema, CreateTable or CreateIndex call that returns an error
\* leaves the meta-increment it was given exactly as it was before the call.
C36_FailedCreateLeavesMetaIncrement ==
  \A p \in Procs : CreateFailed(p) => Untouched(ret[p].meta)

\* C36, amended: a failed create call leaves no schema, table or index entry;
\* it leaves the meta-increment untouched when it fails a validation, and
\* otherwise what it had appended by then.
C36_FailedCreateLeavesNoEntity ==
  \A p \in Procs : CreateFailed(p) => LeftByFailure(ret[p])

\* a CreateIndex gave up for lack of regions after it had created one and
\* had it dropped
C36_Witness ==
  \E p \in Procs :
    /\ CreateFailed(p) /\ ret[p].status = EINDEX_REGION_CREATE_FAILED
    /\ ret[p].new_region_ids # <<>>
    /\ Deletes(ret[p].meta.regions) # <<>>

-----------------------------------------------------------------------------
(* Reads of an entity through a schema *)

\* a getter that returns OK was called with the schema of the stored entity
OwnSchemaOnly(status, schema_id, store, id) ==
  status = OK => Exists(store, id) /\ store[id].schema_id = schema_id

\* C37: GetTable, GetTableRange and GetTableMetrics called with (schema_id,
\* table_id) return the table's data only when the stored table's schema_id
\* equals the schema_id argument, and the index getters likewise.
C37_GettersCheckSchema ==
  /\ \A schema_id \in ReadSchemaIdArgs :
       /\ \A table_id \in DOMAIN table_map_ :
            OwnSchemaOnly(GetTable(schema_id, table_id).status, schema_id,
                          table_map_, table_id)
       /\ \A index_id \in DOMAIN index_map_ :
            OwnSchemaOnly(GetIndex(schema_id, index_id).status, schema_id,
                          index_map_, index_id)
  /\ \A p \in Procs :
       mpc[p] = "returned" =>
         /\ mret[p].op \in {"GetTableRange", "GetTableMetrics"} =>
              OwnSchemaOnly(mret[p].status, mret[p].schema_id, table_map_, mret[p].id)
         /\ mret[p].op \in {"GetIndexRange", "GetIndexMetrics"} =>
              OwnSchemaOnly(mret[p].status, mret[p].schema_id, index_map_, mret[p].id)

-----------------------------------------------------------------------------
(* The benchmark client *)

\* C38: Benchmark::Run starts worker threads only when ArrangeRegion created
\* exactly region_num regions, and whenever Run returns it has called
\* DropRegion exactly once for each region ArrangeRegion created, and for
\* nothing else
C38_RunDropsEveryRegion ==
  /\ thread_entries_ # <<>> => Len(region_entries) = FLAGS.region_num
  /\ bench_pc = "returned" =>
       /\ Len(dropped) = Len(region_entries)
       /\ \A i \in DOMAIN region_entries : CountKind(dropped, region_entries[i]) = 1

\* Run has returned after ArrangeRegion created some but not all of the regions
C38_Witness ==
  /\ bench_pc = "returned"
  /\ region_entries # <<>>
  /\ Len(region_entries) < FLAGS.region_num
  /\ dropped = region_entries

\* Run has ended, by returning or with the process
RunEnded == bench_pc \in {"returned", "aborted"}

\* C39: once called, Benchmark::Run ends (every Execute call returns, the
\* threads are scheduled fairly): IntervalReport is left only with every
\* worker's is_stop set, Stop has been called when it is left with the time
\* limit set and passed, and Run goes on to drop the regions only when every
\* worker has left ThreadRoutine
C39_RunTerminates ==
  /\ [](bench_pc \in {"join", "DropRegion", "returned"} => IsStop(thread_entries_))
  /\ [](/\ bench_pc \in {"join", "DropRegion", "returned"}
        /\ FLAGS.timelimit > 0
        /\ elapsed > FLAGS.timelimit * 1000
        => stop_called)
  /\ [](bench_pc \in {"DropRegion", "returned"} =>
          \A t \in Threads : thread_entries_[t].pc = "done")
  /\ (bench_pc = "ArrangeRegion" ~> RunEnded)

\* Run has returned after the time limit stopped a worker short of its quota
C39_Witness ==
  /\ bench_pc = "returned"
  /\ stop_called
  /\ \E t \in Threads : thread_entries_[t].i < thread_entries_[t].req_num_per_thread

\* C40: each worker's quota is floor(req_num / (concurrency * region_num))
\* rounds of one Execute per region, the Execute calls of all workers never
\* exceed req_num, and the divisor is not zero when a worker has been started
C40_QuotaWithinReqNum ==
  /\ \A t \in Threads :
       thread_entries_[t].pc # "start" /\ QuotaDivisor(FLAGS) # 0 =>
         /\ thread_entries_[t].req_num_per_thread = FLAGS.req_num \div QuotaDivisor(FLAGS)
         /\ thread_entries_[t].i <= thread_entries_[t].req_num_per_thread
         /\ thread_entries_[t].pc = "done" /\ ~stop_called =>
              thread_entries_[t].i = thread_entries_[t].req_num_per_thread
  /\ executed <= FLAGS.req_num
  /\ thread_entries_ # <<>> => QuotaDivisor(FLAGS) # 0

====
